---- MODULE Spec2Model ----
(***************************************************************************)
(* Model of gcstoragenlyzer's access-classification engine                 *)
(* (src/gcstoragenlyzer/analyzer.py) and of the 'scan expose' command      *)
(* (src/gcstoragenlyzer/cli.py).                                           *)
(*                                                                         *)
(* Python strings that the code takes apart (object keys, folder paths,    *)
(* the argument of an IAM condition) are sequences of one-character        *)
(* strings, so that rstrip, startswith, slicing, replace and sorted are    *)
(* computed as the code computes them.  Python dicts are records with the  *)
(* same keys; an f-string is the tuple of its parts.                       *)
(***************************************************************************)
EXTENDS Naturals, Sequences, FiniteSets, TLC

VARIABLES world, project, op, result, calls

vars == <<world, project, op, result, calls>>

-----------------------------------------------------------------------------
(* Bounds of the model *)

\* Largest number of objects a modelled bucket holds.
MaxObjects == 3

\* Largest number of bindings a modelled IAM policy holds.
MaxBindings == 2

\* Largest number of buckets in one 'scan expose --all' sweep.
MaxTargets == 2

\* Calls made one after the other on one analyzer.
MaxCallsInARow == 3

-----------------------------------------------------------------------------
(* Strings *)

SLASH == "/"
STAR == "*"

\* Code point of a character, as Python's sorted() compares str.
CharOrd(c) ==
  CASE c = "*" -> 42
    [] c = "-" -> 45
    [] c = "/" -> 47
    [] c = "a" -> 97
    [] c = "b" -> 98
    [] c = "x" -> 120
    [] c = "y" -> 121

Min(a, b) == IF a < b THEN a ELSE b

\* s.startswith(p)
StartsWith(s, p) == Len(p) <= Len(s) /\ SubSeq(s, 1, Len(p)) = p

\* s.endswith('/')
EndsWithSlash(s) == Len(s) > 0 /\ s[Len(s)] = SLASH

\* '/' in s
HasSlash(s) == \E i \in 1..Len(s) : s[i] = SLASH

\* '**' in s
HasDoubleStar(s) == \E i \in 1..(Len(s) - 1) : s[i] = STAR /\ s[i + 1] = STAR

\* s.rstrip('/'): every trailing '/' is removed
RECURSIVE RStrip(_)
RStrip(s) == IF EndsWithSlash(s) THEN RStrip(SubSeq(s, 1, Len(s) - 1)) ELSE s

\* s.replace('**', ''): non-overlapping occurrences, left to right
RECURSIVE RemoveDoubleStars(_)
RemoveDoubleStars(s) ==
  IF Len(s) = 0 THEN <<>>
  ELSE IF Len(s) >= 2 /\ s[1] = STAR /\ s[2] = STAR
       THEN RemoveDoubleStars(SubSeq(s, 3, Len(s)))
       ELSE <<s[1]>> \o RemoveDoubleStars(Tail(s))

\* s.replace('*', '')
RemoveStars(s) == SelectSeq(s, LAMBDA c : c # STAR)

\* s.split('/')[-1]
RECURSIVE LastSegment(_)
LastSegment(s) ==
  IF ~HasSlash(s) THEN s
  ELSE LastSegment(Tail(s))

\* s < t or s = t in Python's str order (lexicographic by code point)
LexLeq(s, t) ==
  \/ StartsWith(t, s)
  \/ \E i \in 1..Min(Len(s), Len(t)) :
       /\ SubSeq(s, 1, i - 1) = SubSeq(t, 1, i - 1)
       /\ CharOrd(s[i]) < CharOrd(t[i])

\* sorted(S) for a collection of distinct strings
RECURSIVE sorted(_)
sorted(S) ==
  IF S = {} THEN <<>>
  ELSE LET m == CHOOSE x \in S : \A y \in S : LexLeq(x, y)
       IN <<m>> \o sorted(S \ {m})

Range(f) == {f[i] : i \in DOMAIN f}

\* x = v, then F(x): the value of v is computed once and named, as a Python
\* assignment does.
With(v, F(_)) == CHOOSE r \in {F(x) : x \in {v}} : TRUE

\* Sequences over S of length at most n
SeqsUpTo(S, n) == UNION {[1..k -> S] : k \in 0..n}

\* Subsets of S with at most n elements
SubsetsUpTo(S, n) == {T \in SUBSET S : Cardinality(T) <= n}

-----------------------------------------------------------------------------
(* The storage backend, as the code sees it *)

\* Name of the bucket under scan.
BUCKET == "bkt"

\* Result of a call that may raise: the value, or the exception, and the
\* external calls issued on the way, in order.
Ok(v, cs) == [ok |-> TRUE, val |-> v, exc |-> <<>>, calls |-> cs]
Raise(e, cs) == [ok |-> FALSE, val |-> <<>>, exc |-> e, calls |-> cs]

\* A Python exception: its class and the parts of its message.
Exc(type, msg) == [type |-> type, msg |-> msg]

\* An external call, as recorded in the call log.
Call(fn, arg) == [fn |-> fn, arg |-> arg]

NoFault == [call |-> "none", at |-> <<>>, exc |-> "none"]

\* The google.api_core exception the backend answers a faulty call with.
BackendExc(w) ==
  CASE w.fault.exc = "NotFound" -> Exc("NotFound", <<"404">>)
    [] w.fault.exc = "Forbidden" -> Exc("Forbidden", <<"403">>)
    [] OTHER -> Exc("GoogleAPIError", <<"503">>)

\* client.list_blobs(bucket, prefix=prefix, delimiter='/'): the blobs whose
\* name continues the prefix without a further '/', and the prefixes up to
\* and including the next '/'.
RestOf(name, prefix) == SubSeq(name, Len(prefix) + 1, Len(name))

FirstSlash(s) == CHOOSE i \in 1..Len(s) : s[i] = SLASH /\ \A j \in 1..(i - 1) : s[j] # SLASH

\* Mutant of list_blobs: the listing of 'a/' also returns the sibling
\* prefix 'b/', which does not continue the prefix asked for.
list_blobs_LeakSibling(w, prefix) ==
  LET under == {n \in w.objects : StartsWith(n, prefix)}
  IN [blobs    |-> {n \in under : ~HasSlash(RestOf(n, prefix))},
      prefixes |-> {prefix \o SubSeq(RestOf(n, prefix), 1, FirstSlash(RestOf(n, prefix))) :
                      n \in {m \in under : HasSlash(RestOf(m, prefix))}}
                   \cup (IF prefix = <<"a", "/">> THEN {<<"b", "/">>} ELSE {})]

list_blobs(w, prefix) ==
  LET under == {n \in w.objects : StartsWith(n, prefix)}
  IN [blobs    |-> {n \in under : ~HasSlash(RestOf(n, prefix))},
      prefixes |-> {prefix \o SubSeq(RestOf(n, prefix), 1, FirstSlash(RestOf(n, prefix))) :
                      n \in {m \in under : HasSlash(RestOf(m, prefix))}}]

\* Mutant of ListingOrder: the names are left in another order than sorted.
ListingOrder_Reversed(S) ==
  [i \in 1..Cardinality(S) |-> sorted(S)[Cardinality(S) + 1 - i]]

\* The listing as the code orders it.
ListingOrder(S) == sorted(S)

\* Mutant of _list_folders_and_objects_raw: a failing listing is answered
\* as an empty one.
_list_folders_and_objects_raw_Swallow(w, bucket_name, prefix) ==
  IF w.fault.call = "list_blobs" /\ w.fault.at = prefix
  THEN Ok([folders |-> <<>>, objects |-> <<>>], <<Call("list_blobs", prefix)>>)
  ELSE Ok([folders |-> ListingOrder(list_blobs(w, prefix).prefixes),
           objects |-> ListingOrder({n \in list_blobs(w, prefix).blobs : ~EndsWithSlash(n)})],
          <<Call("list_blobs", prefix)>>)

\* GCSAnalyzer._list_folders_and_objects_raw
_list_folders_and_objects_raw(w, bucket_name, prefix) ==
  LET cs == <<Call("list_blobs", prefix)>>
  IN IF w.fault.call = "list_blobs" /\ w.fault.at = prefix
     THEN CASE w.fault.exc = "NotFound" ->
                 Raise(Exc("ValueError", <<"Bucket not found: ", bucket_name>>), cs)
            [] w.fault.exc = "Forbidden" ->
                 Raise(Exc("PermissionError", <<"No access to bucket: ", bucket_name>>), cs)
            [] OTHER ->
                 Raise(Exc("ValueError", <<"Listing error: ">> \o BackendExc(w).msg), cs)
     ELSE LET it == list_blobs(w, prefix)
          IN Ok([folders |-> ListingOrder(it.prefixes),
                 objects |-> ListingOrder({n \in it.blobs : ~EndsWithSlash(n)})], cs)

\* Mutant of check_public_access_http: a network failure leaves the function.
check_public_access_http_Propagate(w, bucket_name, path) ==
  IF path \in w.httpCrash \cup w.httpNetFail
  THEN Raise(Exc("Exception", <<"head: ">> \o path), <<Call("requests.head", path)>>)
  ELSE Ok(path \in w.http200, <<Call("requests.head", path)>>)

\* GCSAnalyzer.check_public_access_http: requests.head on the public URL;
\* status 200 is True, a requests.RequestException is False, any other
\* exception leaves the function.
check_public_access_http(w, bucket_name, path) ==
  LET cs == <<Call("requests.head", path)>>
  IN IF path \in w.httpCrash
     THEN Raise(Exc("Exception", <<"head: ">> \o path), cs)
     ELSE IF path \in w.httpNetFail
          THEN Ok(FALSE, cs)
          ELSE Ok(path \in w.http200, cs)

-----------------------------------------------------------------------------
(* IAM policy and the ExposureMap *)

PublicPrincipals == {"allUsers", "allAuthenticatedUsers"}

\* 'storage.objectViewer' in role
HasObjectViewer(role) == role \in {"roles/storage.objectViewer"}

\* 'storage.legacyObjectReader' in role
HasLegacyObjectReader(role) == role \in {"roles/storage.legacyObjectReader"}

\* A condition expression resource.name.<shape>("projects/_/buckets/<bucket>/objects/<arg>");
\* shape "other" stands for every text neither regular expression finds.
Expr(shape, bucket, arg) == [shape |-> shape, bucket |-> bucket, arg |-> arg]

NoExpr == Expr("none", "", <<>>)

Binding(role, members, has_condition, expression) ==
  [role |-> role, members |-> members, has_condition |-> has_condition, expression |-> expression]

\* Optional[str]
None == [none |-> TRUE]
Some(s) == [none |-> FALSE, str |-> s]

\* The characters of a bucket name.
NameChars(name) ==
  CASE name = "bkt" -> <<"b", "k", "t">>
    [] name = "b.t" -> <<"b", ".", "t">>
    [] name = "bxt" -> <<"b", "x", "t">>
    [] OTHER -> <<>>

\* re.search of rf'...buckets/{bucket_name}/objects/...' at the bucket named
\* in the expression: the name is interpolated into the pattern as it is, so
\* a '.' of the name stands for any one character; the other characters of
\* a bucket name (letters, digits, '-', '_') stand for themselves.
InterpolatedNameMatches(bucket_name, named) ==
  /\ Len(NameChars(bucket_name)) = Len(NameChars(named))
  /\ \A i \in 1..Len(NameChars(bucket_name)) :
       \/ NameChars(bucket_name)[i] = "."
       \/ NameChars(bucket_name)[i] = NameChars(named)[i]

\* Mutant of _extract_prefix_from_condition: the parser remembers that it
\* was called and answers only its first call.
_extract_prefix_from_condition_Once(condition_expr, bucket_name) ==
  IF \E i \in DOMAIN calls : calls[i].fn = "_extract_prefix_from_condition"
  THEN None
  ELSE IF /\ condition_expr.shape = "startsWith"
          /\ InterpolatedNameMatches(bucket_name, condition_expr.bucket)
          /\ Len(condition_expr.arg) > 0
       THEN Some(RStrip(condition_expr.arg))
       ELSE IF /\ condition_expr.shape = "matches"
               /\ InterpolatedNameMatches(bucket_name, condition_expr.bucket)
               /\ Len(condition_expr.arg) > 0
            THEN Some(RStrip(RemoveStars(RemoveDoubleStars(condition_expr.arg))))
            ELSE None

\* Mutant of _extract_prefix_from_condition: the prefix keeps its trailing '/'.
_extract_prefix_from_condition_NoRStrip(condition_expr, bucket_name) ==
  IF /\ condition_expr.shape \in {"startsWith", "matches"}
     /\ InterpolatedNameMatches(bucket_name, condition_expr.bucket)
     /\ Len(condition_expr.arg) > 0
  THEN Some(RemoveStars(condition_expr.arg))
  ELSE None

\* GCSAnalyzer._extract_prefix_from_condition
_extract_prefix_from_condition(condition_expr, bucket_name) ==
  IF /\ condition_expr.shape = "startsWith"
     /\ InterpolatedNameMatches(bucket_name, condition_expr.bucket)
     /\ Len(condition_expr.arg) > 0
  THEN Some(RStrip(condition_expr.arg))
  ELSE IF /\ condition_expr.shape = "matches"
          /\ InterpolatedNameMatches(bucket_name, condition_expr.bucket)
          /\ Len(condition_expr.arg) > 0
       THEN Some(RStrip(RemoveStars(RemoveDoubleStars(condition_expr.arg))))
       ELSE None

\* [m for m in members if m in ['allUsers', 'allAuthenticatedUsers']]
public_members(binding) == SelectSeq(binding.members, LAMBDA m : m \in PublicPrincipals)

\* Mutant of IsObjectReadRole: every role passes.
IsObjectReadRole_AnyRole(role) == TRUE

\* 'storage.objectViewer' in role or 'storage.legacyObjectReader' in role
IsObjectReadRole(role) == HasObjectViewer(role) \/ HasLegacyObjectReader(role)

\* '**' in expr
is_recursive(expr) == HasDoubleStar(expr.arg)

\* dict assignment d[k] = v
DictSet(d, k, v) == [x \in DOMAIN d \cup {k} |-> IF x = k THEN v ELSE d[x]]

\* exposed[''] = [entry]
SetRootEntry(exposed, entry) == DictSet(exposed, <<>>, <<entry>>)

\* exposed[prefix].append(entry), after exposed.setdefault(prefix, [])
AppendEntry(exposed, prefix, entry) ==
  DictSet(exposed, prefix,
          (IF prefix \in DOMAIN exposed THEN exposed[prefix] ELSE <<>>) \o <<entry>>)

\* One turn of the loop of get_exposed_prefixes_from_iam.
ExposedStep(exposed, binding, bucket_name) ==
  IF public_members(binding) = <<>> THEN exposed
  ELSE IF ~IsObjectReadRole(binding.role) THEN exposed
  ELSE IF ~binding.has_condition
       THEN SetRootEntry(exposed,
              [role |-> binding.role, members |-> public_members(binding),
               condition |-> [text |-> "No condition - bucket level public"],
               is_recursive |-> TRUE])
       ELSE LET prefix == _extract_prefix_from_condition(binding.expression, bucket_name)
            IN IF prefix.none THEN exposed
               ELSE AppendEntry(exposed, prefix.str,
                      [role |-> binding.role, members |-> public_members(binding),
                       condition |-> binding.expression,
                       is_recursive |-> is_recursive(binding.expression)])

\* GCSAnalyzer.get_exposed_prefixes_from_iam
RECURSIVE ExposedFrom(_, _, _)
ExposedFrom(bindings, bucket_name, exposed) ==
  IF bindings = <<>> THEN exposed
  ELSE ExposedFrom(Tail(bindings), bucket_name, ExposedStep(exposed, Head(bindings), bucket_name))

get_exposed_prefixes_from_iam(policy, bucket_name) == ExposedFrom(policy, bucket_name, <<>>)

\* GCSAnalyzer.is_public_iam_simple
is_public_iam_simple(policy) ==
  \E i \in DOMAIN policy :
    public_members(policy[i]) # <<>> /\ HasObjectViewer(policy[i].role)

-----------------------------------------------------------------------------
(* Uniform mode: the recursive tree builder *)

\* Mutant of ProbeIsReached: the probe is issued for every folder.
ProbeIsReached_Always(parent_is_public, clean_path, exposed_prefixes) == TRUE

\* Whether the `or` chain of line 537 reaches the HTTP probe.
ProbeIsReached(parent_is_public, clean_path, exposed_prefixes) ==
  ~parent_is_public /\ clean_path \notin DOMAIN exposed_prefixes

\* Mutant of FolderIsPublic: the parent's flag is left out of the `or` chain.
FolderIsPublic_NoInherit(parent_is_public, clean_path, exposed_prefixes, probe) ==
  clean_path \in DOMAIN exposed_prefixes \/ probe

\* is_public = parent_is_public or (clean_path in exposed_prefixes) or <probe>
FolderIsPublic(parent_is_public, clean_path, exposed_prefixes, probe) ==
  parent_is_public \/ clean_path \in DOMAIN exposed_prefixes \/ probe

\* Mutant of FolderReason: the IAM branch is tested before the parent branch.
FolderReason_IamFirst(parent_is_public, clean_path, exposed_prefixes, is_public) ==
  IF clean_path \in DOMAIN exposed_prefixes
  THEN [reason |-> <<"Direct public via IAM condition: ", exposed_prefixes[clean_path][1].role>>,
        objects_status |-> "All objects PUBLIC (IAM policy)"]
  ELSE IF parent_is_public
  THEN [reason |-> <<"Parent folder is public, so this folder is public">>,
        objects_status |-> "All objects PUBLIC (parent inheritance)"]
  ELSE IF is_public
  THEN [reason |-> <<"Detected public via HTTP access test">>,
        objects_status |-> "All objects PUBLIC (HTTP test)"]
  ELSE [reason |-> <<"Private (no IAM condition, HTTP test failed)">>,
        objects_status |-> "All objects PRIVATE"]

\* The if/elif chain that sets result['reason'] and result['objects_status'].
FolderReason(parent_is_public, clean_path, exposed_prefixes, is_public) ==
  IF parent_is_public
  THEN [reason |-> <<"Parent folder is public, so this folder is public">>,
        objects_status |-> "All objects PUBLIC (parent inheritance)"]
  ELSE IF clean_path \in DOMAIN exposed_prefixes
  THEN LET details == exposed_prefixes[clean_path]
       IN IF details # <<>>
          THEN [reason |-> <<"Direct public via IAM condition: ", details[1].role>>,
                objects_status |-> "All objects PUBLIC (IAM policy)"]
          ELSE [reason |-> <<"">>, objects_status |-> ""]
  ELSE IF is_public
  THEN [reason |-> <<"Detected public via HTTP access test">>,
        objects_status |-> "All objects PUBLIC (HTTP test)"]
  ELSE [reason |-> <<"Private (no IAM condition, HTTP test failed)">>,
        objects_status |-> "All objects PRIVATE"]

\* result['object_count'] = len(real_objects); nothing is added to it later.
FolderObjectCount(real_objects, subfolders) == Len(real_objects)

\* Mutant of ChildParentFlag: every recursive call is told its parent is private.
ChildParentFlag_Dropped(is_public) == FALSE

\* parent_is_public=is_public, the flag handed to each recursive call.
ChildParentFlag(is_public) == is_public

\* subfolder[len(folder_path):] if subfolder.startswith(folder_path) else subfolder
SubfolderRelative(subfolder, folder_path) ==
  IF StartsWith(subfolder, folder_path) THEN RestOf(subfolder, folder_path) ELSE subfolder

\* Mutant of IsDirectChild: a sub-prefix with an empty name is not entered.
IsDirectChild_Named(subfolder, folder_path) ==
  /\ RStrip(SubfolderRelative(subfolder, folder_path)) # <<>>
  /\ ~HasSlash(RStrip(SubfolderRelative(subfolder, folder_path)))

\* if subfolder_relative and '/' not in subfolder_relative.rstrip('/')
IsDirectChild(subfolder, folder_path) ==
  /\ SubfolderRelative(subfolder, folder_path) # <<>>
  /\ ~HasSlash(RStrip(SubfolderRelative(subfolder, folder_path)))

\* clean_path.split('/')[-1] if '/' in clean_path else clean_path
FolderName(clean_path) == IF HasSlash(clean_path) THEN LastSegment(clean_path) ELSE clean_path

RECURSIVE scan_folder_recursive(_, _, _, _, _)
RECURSIVE ScanSubfolders(_, _, _, _, _, _)

\* GCSAnalyzer.scan_folder_recursive
scan_folder_recursive(w, bucket_name, folder_path, exposed_prefixes, parent_is_public) ==
  LET clean_path == RStrip(folder_path)
  IN With(IF ProbeIsReached(parent_is_public, clean_path, exposed_prefixes)
          THEN check_public_access_http(w, bucket_name, clean_path \o <<SLASH>>)
          ELSE Ok(FALSE, <<>>),
     LAMBDA probe :
       IF ~probe.ok THEN probe
       ELSE
     With(FolderIsPublic(parent_is_public, clean_path, exposed_prefixes, probe.val),
     LAMBDA is_public :
     With(FolderReason(parent_is_public, clean_path, exposed_prefixes, is_public),
     LAMBDA why :
     With(_list_folders_and_objects_raw(w, bucket_name, folder_path),
     LAMBDA items :
       IF ~items.ok THEN Raise(items.exc, probe.calls \o items.calls)
       ELSE
     With(ScanSubfolders(w, bucket_name, folder_path, items.val.folders,
                         exposed_prefixes, is_public),
     LAMBDA subs :
       IF ~subs.ok THEN Raise(subs.exc, probe.calls \o items.calls \o subs.calls)
       ELSE Ok([path |-> folder_path,
                name |-> FolderName(clean_path),
                is_public |-> is_public,
                reason |-> why.reason,
                subfolders |-> subs.val,
                objects |-> items.val.objects,
                object_count |-> FolderObjectCount(items.val.objects, subs.val),
                objects_status |-> why.objects_status],
               probe.calls \o items.calls \o subs.calls))))))

\* The loop `for subfolder in items['folders']` of scan_folder_recursive.
ScanSubfolders(w, bucket_name, folder_path, folders, exposed_prefixes, is_public) ==
  IF folders = <<>> THEN Ok(<<>>, <<>>)
  ELSE
    LET subfolder == Head(folders)
        taken == IsDirectChild(subfolder, folder_path)
    IN With(IF taken
            THEN scan_folder_recursive(w, bucket_name, subfolder, exposed_prefixes,
                                       ChildParentFlag(is_public))
            ELSE Ok(<<>>, <<>>),
       LAMBDA first :
         IF ~first.ok THEN first
         ELSE
       With(ScanSubfolders(w, bucket_name, folder_path, Tail(folders),
                           exposed_prefixes, is_public),
       LAMBDA rest :
         IF ~rest.ok THEN Raise(rest.exc, first.calls \o rest.calls)
         ELSE Ok((IF taken THEN <<first.val>> ELSE <<>>) \o rest.val,
                 first.calls \o rest.calls)))

-----------------------------------------------------------------------------
(* Fine-grained mode: the per-object tree builder *)

\* Mutant of IsPublicReaderEntry: allAuthenticatedUsers is forgotten.
IsPublicReaderEntry_AllUsersOnly(acl) == acl.role = "READER" /\ acl.entity = "allUsers"

\* acl.role == 'READER' and acl.entity in ['allUsers', 'allAuthenticatedUsers']
IsPublicReaderEntry(acl) == acl.role = "READER" /\ acl.entity \in PublicPrincipals

\* GCSAnalyzer.is_public_acl: a failed ACL read is swallowed and answers False.
is_public_acl(w, obj_name) ==
  IF obj_name \in w.aclFail THEN FALSE
  ELSE \E i \in DOMAIN w.acl[obj_name] : IsPublicReaderEntry(w.acl[obj_name][i])

\* is_public = self.is_public_acl(blob) or self.check_public_access_http(bucket_name, obj_name)
ObjectCheck(w, bucket_name, obj_name) ==
  LET acl_call == <<Call("blob.acl", obj_name)>>
  IN IF is_public_acl(w, obj_name) THEN Ok(TRUE, acl_call)
     ELSE With(check_public_access_http(w, bucket_name, obj_name),
          LAMBDA probe :
            IF probe.ok THEN Ok(probe.val, acl_call \o probe.calls)
            ELSE Raise(probe.exc, acl_call \o probe.calls))

\* Mutant of ObjectLoop: an object whose check raises is still counted.
RECURSIVE ObjectLoop_CountSkipped(_, _, _, _)
ObjectLoop_CountSkipped(w, bucket_name, names, acc) ==
  IF names = <<>> THEN acc
  ELSE
    With(ObjectCheck(w, bucket_name, Head(names)),
    LAMBDA chk :
      With(IF chk.ok
           THEN [objects |-> Append(acc.objects,
                                    [name |-> Head(names), is_public |-> chk.val]),
                 total_object_count |-> acc.total_object_count + 1,
                 public_object_count |->
                   acc.public_object_count + (IF chk.val THEN 1 ELSE 0),
                 calls |-> acc.calls \o chk.calls]
           ELSE [acc EXCEPT !.calls = acc.calls \o chk.calls,
                            !.total_object_count = acc.total_object_count + 1],
      LAMBDA next : ObjectLoop_CountSkipped(w, bucket_name, Tail(names), next)))

\* The loop `for obj_name in items['objects']` of build_fine_grained_tree:
\* acc holds result['objects'], the two counters and the calls so far.  An
\* object whose check raises is reported with click.echo and left out.
RECURSIVE ObjectLoop(_, _, _, _)
ObjectLoop(w, bucket_name, names, acc) ==
  IF names = <<>> THEN acc
  ELSE
    With(ObjectCheck(w, bucket_name, Head(names)),
    LAMBDA chk :
      With(IF chk.ok
           THEN [objects |-> Append(acc.objects,
                                    [name |-> Head(names), is_public |-> chk.val]),
                 total_object_count |-> acc.total_object_count + 1,
                 public_object_count |->
                   acc.public_object_count + (IF chk.val THEN 1 ELSE 0),
                 calls |-> acc.calls \o chk.calls]
           ELSE [acc EXCEPT !.calls = acc.calls \o chk.calls],
      LAMBDA next : ObjectLoop(w, bucket_name, Tail(names), next)))

\* prefix.rstrip('/') or 'root'
TreePath(prefix) == IF RStrip(prefix) = <<>> THEN <<"r", "o", "o", "t">> ELSE RStrip(prefix)

RECURSIVE build_fine_grained_tree(_, _, _)
RECURSIVE BuildSubfolders(_, _, _)

\* GCSAnalyzer.build_fine_grained_tree
build_fine_grained_tree(w, bucket_name, prefix) ==
  With(_list_folders_and_objects_raw(w, bucket_name, prefix),
  LAMBDA items :
    IF ~items.ok THEN items
    ELSE
  With(ObjectLoop(w, bucket_name, items.val.objects,
                  [objects |-> <<>>, total_object_count |-> 0,
                   public_object_count |-> 0, calls |-> <<>>]),
  LAMBDA objs :
  With(BuildSubfolders(w, bucket_name, items.val.folders),
  LAMBDA subs :
    IF ~subs.ok THEN Raise(subs.exc, items.calls \o objs.calls \o subs.calls)
    ELSE Ok([path |-> TreePath(prefix),
             subfolders |-> subs.val.subfolders,
             objects |-> objs.objects,
             total_object_count |-> objs.total_object_count + subs.val.total,
             public_object_count |-> objs.public_object_count + subs.val.public],
            items.calls \o objs.calls \o subs.calls))))

\* The loop `for subfolder in items['folders']` of build_fine_grained_tree.
BuildSubfolders(w, bucket_name, folders) ==
  IF folders = <<>> THEN Ok([subfolders |-> <<>>, total |-> 0, public |-> 0], <<>>)
  ELSE
    With(build_fine_grained_tree(w, bucket_name, Head(folders)),
    LAMBDA first :
      IF ~first.ok THEN first
      ELSE
    With(BuildSubfolders(w, bucket_name, Tail(folders)),
    LAMBDA rest :
      IF ~rest.ok THEN Raise(rest.exc, first.calls \o rest.calls)
      ELSE Ok([subfolders |-> <<first.val>> \o rest.val.subfolders,
               total |-> first.val.total_object_count + rest.val.total,
               public |-> first.val.public_object_count + rest.val.public],
              first.calls \o rest.calls)))

-----------------------------------------------------------------------------
(* The sensitive scan *)

\* GCSAnalyzer._is_object_public: the probe first, then the ACL entries of
\* the reloaded blob; any exception on the way answers False.
_is_object_public(w, bucket_name, object_name) ==
  With(check_public_access_http(w, bucket_name, object_name),
  LAMBDA probe :
    IF ~probe.ok THEN Ok(FALSE, probe.calls)
    ELSE IF probe.val THEN Ok(TRUE, probe.calls)
    ELSE IF object_name \in w.aclFail
         THEN Ok(FALSE, probe.calls \o <<Call("blob.reload", object_name)>>)
         ELSE Ok(\E i \in DOMAIN w.acl[object_name] :
                   w.acl[object_name][i].entity \in PublicPrincipals,
                 probe.calls \o <<Call("blob.reload", object_name)>>))

\* GCSAnalyzer._scan_object_for_patterns with the default file types, for a
\* key without extension: the content is downloaded and matched; a download
\* that fails gives no content and no finding.  contents names what each
\* object holds.
_scan_object_for_patterns(contents, bucket_name, object_name) ==
  Ok(IF contents[object_name] = "secret"
     THEN <<[object |-> object_name, pattern_key |-> "secret"]>>
     ELSE <<>>,
     <<Call("download_as_bytes", object_name)>>)

\* Mutant of SkippedAsPrivate: no object is skipped.
SkippedAsPrivate_Never(public_only, is_object_public) == FALSE

\* public_only and not self._is_object_public(bucket_name, blob.name)
SkippedAsPrivate(public_only, is_object_public) == public_only /\ ~is_object_public

\* The loop `for blob in all_blobs_iterator` of scan_folder_sensitive.
RECURSIVE SensitiveLoop(_, _, _, _, _, _)
SensitiveLoop(w, contents, bucket_name, names, public_only, acc) ==
  IF names = <<>> THEN acc
  ELSE IF EndsWithSlash(Head(names))
       THEN SensitiveLoop(w, contents, bucket_name, Tail(names), public_only, acc)
  ELSE
    With(IF public_only THEN _is_object_public(w, bucket_name, Head(names))
         ELSE Ok(TRUE, <<>>),
    LAMBDA verdict :
      IF SkippedAsPrivate(public_only, verdict.val)
      THEN SensitiveLoop(w, contents, bucket_name, Tail(names), public_only,
                         Ok(acc.val, acc.calls \o verdict.calls))
      ELSE With(_scan_object_for_patterns(contents, bucket_name, Head(names)),
           LAMBDA findings :
             SensitiveLoop(w, contents, bucket_name, Tail(names), public_only,
                           Ok(acc.val \o findings.val,
                              acc.calls \o verdict.calls \o findings.calls))))

\* prefix = (folder_path or '').rstrip('/'); if prefix: prefix += '/'
SensitivePrefix(folder_path) ==
  IF RStrip(folder_path) = <<>> THEN <<>> ELSE RStrip(folder_path) \o <<SLASH>>

\* GCSAnalyzer.scan_folder_sensitive: client.list_blobs(bucket_name,
\* prefix=prefix) lists every blob under the prefix; a GoogleAPIError of the
\* listing becomes a ValueError.
scan_folder_sensitive(w, contents, bucket_name, folder_path, public_only) ==
  LET prefix == SensitivePrefix(folder_path)
      cs == <<Call("list_blobs", prefix)>>
  IN IF w.fault.call = "list_blobs" /\ w.fault.at = prefix
     THEN Raise(Exc("ValueError",
                    <<"Sensitive data scan API error: ">> \o BackendExc(w).msg), cs)
     ELSE With(SensitiveLoop(w, contents, bucket_name,
                             sorted({n \in w.objects : StartsWith(n, prefix)}),
                             public_only, Ok(<<>>, cs)),
          LAMBDA found :
            Ok([bucket_name |-> bucket_name, folder_path |-> prefix,
                findings |-> found.val],
               found.calls))

-----------------------------------------------------------------------------

(* The mode dispatcher *)

\* bucket.reload()
reload(w) ==
  IF w.fault.call = "reload" THEN Raise(BackendExc(w), <<Call("reload", <<>>)>>)
  ELSE Ok(w.uniform, <<Call("reload", <<>>)>>)

\* bucket.get_iam_policy(requested_policy_version=3)
get_iam_policy(w) ==
  IF w.fault.call = "get_iam_policy" THEN Raise(BackendExc(w), <<Call("get_iam_policy", <<>>)>>)
  ELSE Ok(w.policy, <<Call("get_iam_policy", <<>>)>>)

\* An outcome with the calls issued before it put in front of its own.
After(before, out) ==
  With(out, LAMBDA o : [o EXCEPT !.calls = before \o o.calls])

\* except Forbidden / except NotFound / except Exception, as the three scan
\* functions end.
WrapScanErrors(out, bucket_name) ==
  With(out, LAMBDA o :
    IF o.ok THEN o
    ELSE CASE o.exc.type = "Forbidden" ->
                Raise(Exc("PermissionError", <<"No access to ", bucket_name, ".">>), o.calls)
           [] o.exc.type = "NotFound" ->
                Raise(Exc("ValueError", <<bucket_name, " not found.">>), o.calls)
           [] OTHER ->
                Raise(Exc("ValueError", <<"Scan error: ">> \o o.exc.msg), o.calls))

\* except Exception as e: raise ValueError(f"Scan error: {e}")
WrapAnyError(out) ==
  With(out, LAMBDA o :
    IF o.ok THEN o
    ELSE Raise(Exc("ValueError", <<"Scan error: ">> \o o.exc.msg), o.calls))

\* GCSAnalyzer._count_public_folders
RECURSIVE _count_public_folders(_)
_count_public_folders(folders) ==
  IF folders = <<>> THEN 0
  ELSE (IF Head(folders).is_public THEN 1 ELSE 0)
       + _count_public_folders(Head(folders).subfolders)
       + _count_public_folders(Tail(folders))

\* GCSAnalyzer._count_total_folders
RECURSIVE _count_total_folders(_)
_count_total_folders(folders) ==
  IF folders = <<>> THEN 0
  ELSE 1 + _count_total_folders(Head(folders).subfolders) + _count_total_folders(Tail(folders))

\* The summary of a bucket found public at bucket level.
CriticalSummary(message) ==
  [status |-> "CRITICAL", message |-> message,
   reason |-> "Detected via IAM Policy or HTTP test"]

\* The loop `for folder in root_items['folders']` of scan_bucket_uniform_access.
RECURSIVE ScanRootFolders(_, _, _, _)
ScanRootFolders(w, bucket_name, folders, exposed_prefixes) ==
  IF folders = <<>> THEN Ok(<<>>, <<>>)
  ELSE
    With(scan_folder_recursive(w, bucket_name, Head(folders), exposed_prefixes, FALSE),
    LAMBDA first :
      IF ~first.ok THEN first
      ELSE
    With(ScanRootFolders(w, bucket_name, Tail(folders), exposed_prefixes),
    LAMBDA rest :
      IF ~rest.ok THEN Raise(rest.exc, first.calls \o rest.calls)
      ELSE Ok(<<first.val>> \o rest.val, first.calls \o rest.calls)))

\* '' in exposed_prefixes or self.check_public_access_http(bucket_name)
UniformBucketPublic(w, bucket_name, exposed_prefixes) ==
  IF <<>> \in DOMAIN exposed_prefixes THEN Ok(TRUE, <<>>)
  ELSE check_public_access_http(w, bucket_name, <<>>)

\* The backend as a probe finds it when a URL is probed a second time in
\* the same scan: the network may answer differently.
ProbedAgain(w) == [w EXCEPT !.http200 = w.http200Again]

\* root_public = '' in exposed_prefixes or self.check_public_access_http(bucket_name),
\* the second bucket-level test of scan_bucket_uniform_access.
UniformRootPublic(w, bucket_name, exposed_prefixes) ==
  UniformBucketPublic(ProbedAgain(w), bucket_name, exposed_prefixes)

\* The summary of a uniform whole-bucket scan that walked the tree.
UniformSummary(public_folders, total_folders) ==
  [status |-> IF public_folders > 0 THEN "WARNING" ELSE "SAFE",
   total_folders |-> total_folders,
   public_folders |-> public_folders,
   message |-> IF public_folders > 0
               THEN [public |-> public_folders, total |-> total_folders,
                     text |-> " folders public"]
               ELSE [text |-> "No folders are public"]]

\* The result of a uniform whole-bucket scan that walked the tree;
\* root_objects is reported only when the root holds objects.
UniformResult(bucket_name, folders, real_root_objects, root_public) ==
  LET summary == UniformSummary(_count_public_folders(folders),
                                _count_total_folders(folders))
  IN IF real_root_objects # <<>>
     THEN [bucket_name |-> bucket_name, uniform_access |-> TRUE,
           bucket_level_public |-> FALSE, folders |-> folders,
           root_objects |->
             [count |-> Len(real_root_objects),
              status |-> IF root_public THEN "PUBLIC" ELSE "PRIVATE",
              objects |-> real_root_objects],
           summary |-> summary]
     ELSE [bucket_name |-> bucket_name, uniform_access |-> TRUE,
           bucket_level_public |-> FALSE, folders |-> folders,
           summary |-> summary]

\* The body of scan_bucket_uniform_access after the mode check.
UniformWalk(w, bucket_name, policy) ==
  With(get_exposed_prefixes_from_iam(policy, bucket_name),
  LAMBDA exposed_prefixes :
  With(UniformBucketPublic(w, bucket_name, exposed_prefixes),
  LAMBDA bucket_public :
    IF ~bucket_public.ok THEN bucket_public
    ELSE IF bucket_public.val
    THEN Ok([bucket_name |-> bucket_name, uniform_access |-> TRUE,
             bucket_level_public |-> TRUE, folders |-> <<>>,
             summary |-> CriticalSummary(
               "Bucket is completely PUBLIC! All folders and objects are exposed.")],
            bucket_public.calls)
    ELSE
  With(_list_folders_and_objects_raw(w, bucket_name, <<>>),
  LAMBDA root_items :
    IF ~root_items.ok THEN Raise(root_items.exc, bucket_public.calls \o root_items.calls)
    ELSE
  With(ScanRootFolders(w, bucket_name, root_items.val.folders, exposed_prefixes),
  LAMBDA fs :
    IF ~fs.ok
    THEN Raise(fs.exc, bucket_public.calls \o root_items.calls \o fs.calls)
    ELSE
  With(IF root_items.val.objects # <<>>
       THEN UniformRootPublic(w, bucket_name, exposed_prefixes)
       ELSE Ok(FALSE, <<>>),
  LAMBDA root_public :
    IF ~root_public.ok
    THEN Raise(root_public.exc,
               bucket_public.calls \o root_items.calls \o fs.calls \o root_public.calls)
    ELSE Ok(UniformResult(bucket_name, fs.val, root_items.val.objects, root_public.val),
            bucket_public.calls \o root_items.calls \o fs.calls \o root_public.calls))))))

\* Mutant of UniformModeMismatch: the mode is never found to mismatch.
UniformModeMismatch_Never(is_uniform) == FALSE

\* if not is_uniform, the mode test of scan_bucket_uniform_access
UniformModeMismatch(is_uniform) == ~is_uniform

\* GCSAnalyzer.scan_bucket_uniform_access
scan_bucket_uniform_access(w, bucket_name) ==
  WrapScanErrors(
    With(reload(w), LAMBDA meta :
      IF ~meta.ok THEN meta
      ELSE IF UniformModeMismatch(meta.val)
      THEN Ok([error |-> "This bucket is not in Uniform Access mode. Using fine-grained ACL.",
               bucket_name |-> bucket_name, uniform_access |-> FALSE], meta.calls)
      ELSE With(get_iam_policy(w), LAMBDA policy :
             IF ~policy.ok THEN Raise(policy.exc, meta.calls \o policy.calls)
             ELSE After(meta.calls \o policy.calls,
                        UniformWalk(w, bucket_name, policy.val)))),
    bucket_name)

\* GCSAnalyzer.scan_folder_uniform_access
scan_folder_uniform_access(w, bucket_name, folder_path) ==
  WrapAnyError(
    With(get_iam_policy(w), LAMBDA policy :
      IF ~policy.ok THEN policy
      ELSE With(get_exposed_prefixes_from_iam(policy.val, bucket_name),
           LAMBDA exposed_prefixes :
             After(policy.calls,
                   scan_folder_recursive(w, bucket_name, folder_path,
                                         exposed_prefixes, FALSE)))))

\* is_public_iam_simple(policy) or self.check_public_access_http(bucket_name)
FineGrainedBucketPublic(w, bucket_name, policy) ==
  IF is_public_iam_simple(policy) THEN Ok(TRUE, <<>>)
  ELSE check_public_access_http(w, bucket_name, <<>>)

\* The summary of a fine-grained scan that walked the objects.
FineGrainedSummary(public_objects, total_objects) ==
  [status |-> IF public_objects > 0 THEN "WARNING" ELSE "SAFE",
   total_objects |-> total_objects,
   public_objects |-> public_objects,
   message |-> IF public_objects > 0
               THEN [public |-> public_objects, total |-> total_objects,
                     text |-> " objects public"]
               ELSE [text |-> "No objects are public"]]

\* The body of scan_bucket_fine_grained_access after the mode check.
FineGrainedWalk(w, bucket_name, policy) ==
  With(FineGrainedBucketPublic(w, bucket_name, policy),
  LAMBDA bucket_public :
    IF ~bucket_public.ok THEN bucket_public
    ELSE IF bucket_public.val
    THEN Ok([bucket_name |-> bucket_name, fine_grained |-> TRUE,
             bucket_level_public |-> TRUE, folder_tree |-> None,
             summary |-> CriticalSummary(
               "Bucket is completely PUBLIC! All objects are exposed.")],
            bucket_public.calls)
    ELSE
  With(build_fine_grained_tree(w, bucket_name, <<>>),
  LAMBDA folder_tree :
    IF ~folder_tree.ok
    THEN Raise(folder_tree.exc, bucket_public.calls \o folder_tree.calls)
    ELSE Ok([bucket_name |-> bucket_name, fine_grained |-> TRUE,
             bucket_level_public |-> FALSE, folder_tree |-> folder_tree.val,
             summary |-> FineGrainedSummary(folder_tree.val.public_object_count,
                                            folder_tree.val.total_object_count)],
            bucket_public.calls \o folder_tree.calls)))

\* if is_uniform, the mode test of scan_bucket_fine_grained_access
FineGrainedModeMismatch(is_uniform) == is_uniform

\* GCSAnalyzer.scan_bucket_fine_grained_access
scan_bucket_fine_grained_access(w, bucket_name) ==
  WrapScanErrors(
    With(reload(w), LAMBDA meta :
      IF ~meta.ok THEN meta
      ELSE IF FineGrainedModeMismatch(meta.val)
      THEN Ok([error |-> "This bucket is not in Fine-Grained mode. Using Uniform Access.",
               bucket_name |-> bucket_name, uniform_access |-> TRUE], meta.calls)
      ELSE With(get_iam_policy(w), LAMBDA policy :
             IF ~policy.ok THEN Raise(policy.exc, meta.calls \o policy.calls)
             ELSE After(meta.calls \o policy.calls,
                        FineGrainedWalk(w, bucket_name, policy.val)))),
    bucket_name)

\* The single-folder branch of scan_bucket on a uniform-access bucket.
ScanFolderUniform(w, bucket_name, folder_path) ==
  With(scan_folder_uniform_access(w, bucket_name, folder_path),
  LAMBDA res :
    IF ~res.ok THEN res
    ELSE Ok([bucket_name |-> bucket_name, folder_path |-> folder_path,
             uniform_access |-> TRUE, folder_data |-> res.val,
             summary |-> [status |-> IF res.val.is_public THEN "WARNING" ELSE "SAFE",
                          message |-> <<"Folder ",
                                        IF res.val.is_public THEN "PUBLIC" ELSE "PRIVATE">>]],
            res.calls))

\* The single-folder branch of scan_bucket on a fine-grained bucket.
ScanFolderFineGrained(w, bucket_name, folder_path) ==
  With(build_fine_grained_tree(w, bucket_name, folder_path),
  LAMBDA folder_tree :
    IF ~folder_tree.ok THEN folder_tree
    ELSE Ok([bucket_name |-> bucket_name, folder_path |-> folder_path,
             fine_grained |-> TRUE, folder_tree |-> folder_tree.val,
             summary |-> FineGrainedSummary(folder_tree.val.public_object_count,
                                            folder_tree.val.total_object_count)],
            folder_tree.calls))

\* GCSAnalyzer.scan_bucket; folder_path '' asks for the whole bucket.
scan_bucket(w, bucket_name, folder_path) ==
  WrapScanErrors(
    With(reload(w), LAMBDA meta :
      IF ~meta.ok THEN meta
      ELSE
        LET is_uniform == meta.val
        IN After(meta.calls,
                 IF folder_path # <<>>
                 THEN IF is_uniform
                      THEN ScanFolderUniform(w, bucket_name,
                                             RStrip(folder_path) \o <<SLASH>>)
                      ELSE ScanFolderFineGrained(w, bucket_name,
                                                 RStrip(folder_path) \o <<SLASH>>)
                 ELSE IF is_uniform
                      THEN scan_bucket_uniform_access(w, bucket_name)
                      ELSE scan_bucket_fine_grained_access(w, bucket_name))),
    bucket_name)

-----------------------------------------------------------------------------
(* Buckets, policies and backend answers the model ranges over *)

K_x == <<"x">>
K_ax == <<"a", "/", "x">>
K_ay == <<"a", "/", "y">>
K_abx == <<"a", "/", "b", "/", "x">>
K_bx == <<"b", "/", "x">>
K_a == <<"a", "/">>
K_aax == <<"a", "/", "/", "x">>
K_adx == <<"a", "-", "/", "x">>
K_abdx == <<"a", "/", "b", "-", "/", "x">>

F_root == <<>>
F_a == <<"a", "/">>
F_ab == <<"a", "/", "b", "/">>
F_b == <<"b", "/">>

VIEWER == "roles/storage.objectViewer"
LEGACY_READER == "roles/storage.legacyObjectReader"
OBJECT_ADMIN == "roles/storage.objectAdmin"

\* allUsers may read every object (no condition).
B_ViewerUncond == Binding(VIEWER, <<"user:alice", "allUsers">>, FALSE, NoExpr)
B_LegacyUncond == Binding(LEGACY_READER, <<"allUsers">>, FALSE, NoExpr)
\* resource.name.startsWith("projects/_/buckets/bkt/objects/a/")
B_ViewerStartsA == Binding(VIEWER, <<"allUsers">>, TRUE, Expr("startsWith", BUCKET, F_a))
\* resource.name.startsWith("projects/_/buckets/bkt/objects/b/")
B_ViewerStartsB == Binding(VIEWER, <<"allUsers", "allAuthenticatedUsers">>, TRUE,
                           Expr("startsWith", BUCKET, F_b))
\* resource.name.startsWith("projects/_/buckets/bkt/objects/a/b/")
B_ViewerStartsAB == Binding(VIEWER, <<"allUsers">>, TRUE, Expr("startsWith", BUCKET, F_ab))
\* resource.name.matches("projects/_/buckets/bkt/objects/a/b/**")
B_LegacyMatchesAB == Binding(LEGACY_READER, <<"allAuthenticatedUsers">>, TRUE,
                             Expr("matches", BUCKET, <<"a", "/", "b", "/", "*", "*">>))
\* A public binding of a role that reads no object.
B_AdminStartsB == Binding(OBJECT_ADMIN, <<"allUsers">>, TRUE, Expr("startsWith", BUCKET, F_b))
\* A binding with no public member.
B_ViewerPrivate == Binding(VIEWER, <<"user:alice">>, TRUE, Expr("startsWith", BUCKET, F_b))

\* request.time < timestamp("..."): a condition of neither shape.
B_ViewerOther == Binding(VIEWER, <<"allUsers">>, TRUE, Expr("other", "", <<>>))
\* resource.name.startsWith("projects/_/buckets/bxt/objects/a/")
B_LegacyElsewhere == Binding(LEGACY_READER, <<"allUsers", "user:alice">>, TRUE,
                             Expr("startsWith", "bxt", F_a))
\* A public binding, without condition, of a role that reads no object.
B_AdminUncond == Binding(OBJECT_ADMIN, <<"allAuthenticatedUsers">>, FALSE, NoExpr)

NoAcl == <<>>
AclPublicRead == <<[entity |-> "allUsers", role |-> "READER"]>>
AclAuthRead == <<[entity |-> "user-bob", role |-> "OWNER"],
                 [entity |-> "allAuthenticatedUsers", role |-> "READER"]>>
AclPublicOwner == <<[entity |-> "allUsers", role |-> "OWNER"]>>
AclUserRead == <<[entity |-> "user-bob", role |-> "READER"]>>

World(objects, acl, aclFail, policy, http200, uniform, fault) ==
  [objects |-> objects, acl |-> acl, aclFail |-> aclFail, policy |-> policy,
   http200 |-> http200, http200Again |-> http200, httpNetFail |-> {}, httpCrash |-> {},
   uniform |-> uniform, fault |-> fault]

PrivateAcls(objects) == [o \in objects |-> NoAcl]

NoOp == [name |-> "idle", folder_path |-> <<>>, parent_is_public |-> FALSE]
NoResult == [ok |-> TRUE, val |-> <<>>, exc |-> <<>>]

Idle == op.name = "idle"

\* What an operation leaves in the state: its arguments, its outcome and the
\* external calls it issued.
Finish(name, folder_path, parent_is_public, out) ==
  \E o \in {out} :
    /\ op' = [name |-> name, folder_path |-> folder_path, parent_is_public |-> parent_is_public]
    /\ result' = [ok |-> o.ok, val |-> o.val, exc |-> o.exc]
    /\ calls' = o.calls
    /\ UNCHANGED <<world, project>>

-----------------------------------------------------------------------------
(* Specification Spec: the uniform-mode tree builder *)

TreeKeys == {K_ax, K_abx, K_bx, K_a, K_aax}
TreeBindings ==
  {B_ViewerStartsA, B_ViewerStartsAB, B_LegacyMatchesAB, B_ViewerUncond, B_AdminStartsB}
TreeProbePaths == {F_a, F_ab}
TreeFolders == {F_a, F_ab, F_b}

TreeWorlds ==
  {World(objects, PrivateAcls(objects), {}, policy, http200, TRUE, NoFault) :
     objects \in SubsetsUpTo(TreeKeys, MaxObjects),
     policy \in SeqsUpTo(TreeBindings, MaxBindings),
     http200 \in SUBSET TreeProbePaths}

Init ==
  /\ world \in TreeWorlds
  /\ project = <<>>
  /\ op = NoOp
  /\ result = NoResult
  /\ calls = <<>>

\* A call of scan_folder_recursive with the ExposureMap of the bucket's policy.
ScanFolderRecursive ==
  /\ Idle
  /\ \E folder_path \in TreeFolders, parent_is_public \in BOOLEAN :
       Finish("scan_folder_recursive", folder_path, parent_is_public,
              scan_folder_recursive(world, BUCKET, folder_path,
                get_exposed_prefixes_from_iam(world.policy, BUCKET), parent_is_public))

\* A call of scan_folder_uniform_access.
ScanFolderUniformAccess ==
  /\ Idle
  /\ \E folder_path \in TreeFolders :
       Finish("scan_folder_uniform_access", folder_path, FALSE,
              scan_folder_uniform_access(world, BUCKET, folder_path))

Next == ScanFolderRecursive \/ ScanFolderUniformAccess

Spec == Init /\ [][Next]_vars

-----------------------------------------------------------------------------
(* Claims about the uniform-mode tree (specification Spec) *)

RECURSIVE TreeNodes(_)
TreeNodes(n) == {n} \cup UNION {TreeNodes(n.subfolders[i]) : i \in DOMAIN n.subfolders}

\* Every node of the tree with the is_public flag of its parent (for the
\* root: the parent_is_public argument of the call).
RECURSIVE NodesWithParentFlag(_, _)
NodesWithParentFlag(n, parent_is_public) ==
  {[node |-> n, parent_is_public |-> parent_is_public]}
  \cup UNION {NodesWithParentFlag(n.subfolders[i], n.is_public) : i \in DOMAIN n.subfolders}

RECURSIVE SumObjectCounts(_)
SumObjectCounts(subfolders) ==
  IF subfolders = <<>> THEN 0
  ELSE Head(subfolders).object_count + SumObjectCounts(Tail(subfolders))

\* A folder tree was returned by the recursive tree builder.
UniformTreeReturned ==
  op.name \in {"scan_folder_recursive", "scan_folder_uniform_access"} /\ result.ok

PolicyMap == get_exposed_prefixes_from_iam(world.policy, BUCKET)

\* C1: in every tree returned by scan_folder_recursive a public node has only
\* public nodes below it: no node with is_public = false has an ancestor
\* with is_public = true.
C1_PropagationInvariant ==
  UniformTreeReturned =>
    \A n \in TreeNodes(result.val) :
      n.is_public => \A d \in TreeNodes(n) : d.is_public

\* C1 witness: a returned tree whose root is public by its own classification
\* (its parent is not public) and has a subfolder.
C1_Witness ==
  /\ UniformTreeReturned
  /\ ~op.parent_is_public
  /\ result.val.is_public
  /\ result.val.subfolders # <<>>

\* C2 as claimed: at every node object_count is the number of the node's own
\* objects plus the object_count of each of its subfolders.
C2_ObjectCountAggregates ==
  UniformTreeReturned =>
    \A n \in TreeNodes(result.val) :
      n.object_count = Len(n.objects) + SumObjectCounts(n.subfolders)

\* The first matching rule of the classifier for a folder, from the parent's
\* flag, the ExposureMap and the answer of the anonymous probe.
ExpectedClass(parent_is_public, path) ==
  IF parent_is_public
  THEN [is_public |-> TRUE,
        reason |-> <<"Parent folder is public, so this folder is public">>]
  ELSE IF RStrip(path) \in DOMAIN PolicyMap
  THEN [is_public |-> TRUE,
        reason |-> <<"Direct public via IAM condition: ", PolicyMap[RStrip(path)][1].role>>]
  ELSE IF (RStrip(path) \o <<SLASH>>) \in world.http200
  THEN [is_public |-> TRUE, reason |-> <<"Detected public via HTTP access test">>]
  ELSE [is_public |-> FALSE, reason |-> <<"Private (no IAM condition, HTTP test failed)">>]

\* C3: every node of a returned tree is classified by the first rule that
\* matches, in the order parent public, prefix a key of the ExposureMap,
\* probe answered 200, else private; only the last leaves is_public false.
C3_DecisionOrder ==
  UniformTreeReturned =>
    \A p \in NodesWithParentFlag(result.val, op.parent_is_public) :
      /\ p.node.is_public = ExpectedClass(p.parent_is_public, p.node.path).is_public
      /\ p.node.reason = ExpectedClass(p.parent_is_public, p.node.path).reason
      /\ (~p.node.is_public =>
            p.node.reason = <<"Private (no IAM condition, HTTP test failed)">>)

\* C3 witness: a node under a public parent whose own prefix is a key of the
\* ExposureMap and which carries the inherited reason.
C3_Witness ==
  /\ UniformTreeReturned
  /\ \E p \in NodesWithParentFlag(result.val, op.parent_is_public) :
       /\ p.parent_is_public
       /\ RStrip(p.node.path) \in DOMAIN PolicyMap
       /\ p.node.reason = <<"Parent folder is public, so this folder is public">>

\* The binding of C4 for folder path P/: an object-viewer role, member
\* allUsers, condition startsWith on .../objects/P/.
IsViewerStartsWithBinding(b, folder_path) ==
  /\ HasObjectViewer(b.role)
  /\ \E i \in DOMAIN b.members : b.members[i] = "allUsers"
  /\ b.has_condition
  /\ b.expression = Expr("startsWith", BUCKET, folder_path)

\* A public object-read binding whose condition names the folder's prefix.
NamesPrefix(b, folder_path) ==
  /\ public_members(b) # <<>>
  /\ IsObjectReadRole(b.role)
  /\ b.has_condition
  /\ b.expression.shape \in {"startsWith", "matches"}
  /\ b.expression.bucket = BUCKET
  /\ RStrip(RemoveStars(b.expression.arg)) = RStrip(folder_path)

\* C4: scanning folder P/ of a bucket whose policy holds the binding of C4
\* for P/ (the ExposureMap is built from the policy, the parent is not
\* public) classifies it public with the IAM-condition reason; a folder
\* whose prefix no binding names and whose probe does not answer 200 is
\* classified private.
C4_EndToEndIamExposure ==
  (op.name = "scan_folder_uniform_access" /\ result.ok) =>
    /\ (\E i \in DOMAIN world.policy :
          IsViewerStartsWithBinding(world.policy[i], op.folder_path))
       => /\ result.val.is_public
          /\ result.val.reason[1] = "Direct public via IAM condition: "
    /\ ( /\ \A i \in DOMAIN world.policy : ~NamesPrefix(world.policy[i], op.folder_path)
         /\ (RStrip(op.folder_path) \o <<SLASH>>) \notin world.http200 )
       => ~result.val.is_public

\* C4 witness: the policy holds the binding for the scanned folder, whose
\* probe would not answer 200, and the folder is returned public.
C4_Witness ==
  /\ op.name = "scan_folder_uniform_access"
  /\ result.ok
  /\ \E i \in DOMAIN world.policy : IsViewerStartsWithBinding(world.policy[i], op.folder_path)
  /\ op.folder_path \notin world.http200
  /\ result.val.is_public

\* A node that is public on account of bindings none of which is recursive,
\* with a subfolder that no binding names and no probe finds public.
NonRecursiveParentCase(n, i) ==
  /\ n.reason[1] = "Direct public via IAM condition: "
  /\ \A k \in DOMAIN PolicyMap[RStrip(n.path)] : ~PolicyMap[RStrip(n.path)][k].is_recursive
  /\ RStrip(n.subfolders[i].path) \notin DOMAIN PolicyMap
  /\ (RStrip(n.subfolders[i].path) \o <<SLASH>>) \notin world.http200

\* C9 as claimed: below a folder that is public only through bindings with
\* is_recursive = false, a nested sub-prefix is not classified public.
C9_NonRecursiveStaysLiteral ==
  UniformTreeReturned =>
    \A n \in TreeNodes(result.val) : \A i \in DOMAIN n.subfolders :
      NonRecursiveParentCase(n, i) => ~n.subfolders[i].is_public

\* C9 as amended: is_recursive is recorded but never read; a nested
\* sub-prefix below a folder that is public through a binding with
\* is_recursive = false is classified public, inherited from its parent.
C9_RecursiveFlagIgnored ==
  UniformTreeReturned =>
    \A n \in TreeNodes(result.val) : \A i \in DOMAIN n.subfolders :
      NonRecursiveParentCase(n, i) =>
        /\ n.subfolders[i].is_public
        /\ n.subfolders[i].reason = <<"Parent folder is public, so this folder is public">>

\* C9 witness: such a folder and sub-prefix occur in a returned tree.
C9_Witness ==
  /\ UniformTreeReturned
  /\ \E n \in TreeNodes(result.val) : \E i \in DOMAIN n.subfolders :
       NonRecursiveParentCase(n, i) /\ n.subfolders[i].is_public

-----------------------------------------------------------------------------
(* Specification SpecFine: the fine-grained tree builder *)

FineKeys == {K_x, K_ax, K_ay, K_abx}
AclChoices == {NoAcl, AclPublicRead, AclAuthRead, AclPublicOwner}
FinePrefixes == {F_root, F_a}

\* Buckets with one object whose anonymous probe raises something other
\* than a requests.RequestException.
FineCrashWorlds ==
  UNION {
    {[World(objects, acl, {}, <<>>, {}, FALSE, NoFault) EXCEPT !.httpCrash = {o}] :
       acl \in [objects -> {NoAcl, AclPublicRead}],
       o \in objects} :
    objects \in SubsetsUpTo(FineKeys, MaxObjects)}

FineWorlds ==
  UNION {
    {World(objects, acl, aclFail, <<>>, http200, FALSE, NoFault) :
       acl \in [objects -> AclChoices],
       aclFail \in SubsetsUpTo(objects, 1),
       http200 \in SUBSET objects} :
    objects \in SubsetsUpTo(FineKeys, MaxObjects)}
  \cup FineCrashWorlds

InitFine ==
  /\ world \in FineWorlds
  /\ project = <<>>
  /\ op = NoOp
  /\ result = NoResult
  /\ calls = <<>>

\* A call of build_fine_grained_tree.
BuildFineGrainedTree ==
  /\ Idle
  /\ \E prefix \in FinePrefixes :
       Finish("build_fine_grained_tree", prefix, FALSE,
              build_fine_grained_tree(world, BUCKET, prefix))

NextFine == BuildFineGrainedTree

SpecFine == InitFine /\ [][NextFine]_vars

-----------------------------------------------------------------------------
(* Claims about the fine-grained tree (specification SpecFine) *)

FineTreeReturned == op.name = "build_fine_grained_tree" /\ result.ok

\* The object's ACL holds an entry of a public entity with role READER.
HasPublicReaderAcl(o) ==
  \E i \in DOMAIN world.acl[o] :
    /\ world.acl[o][i].entity \in {"allUsers", "allAuthenticatedUsers"}
    /\ world.acl[o][i].role = "READER"

\* The entries of the objects lists of a tree.
ObjectEntries(tree) == UNION {Range(n.objects) : n \in TreeNodes(tree)}

\* The objects of the bucket that a scan rooted at prefix reaches.
ObjectsUnder(prefix) == {o \in world.objects : StartsWith(o, prefix) /\ ~EndsWithSlash(o)}

PublicByAcl(o) == HasPublicReaderAcl(o) /\ o \notin world.aclFail

-----------------------------------------------------------------------------
(* Specification SpecDispatch: scan_bucket and the two whole-bucket scans *)

DispatchKeys == {K_x, K_ax, K_abx}
DispatchBindings == {B_ViewerUncond, B_LegacyUncond, B_ViewerStartsA, B_ViewerPrivate}
DispatchProbePaths == {F_root, F_a, K_x}
DispatchFolderArgs == {<<>>, <<"a">>}

PublicAcls(objects) == [o \in objects |-> AclPublicRead]

\* Backend failures: the metadata reload, the policy fetch, or a listing.
DispatchFaults ==
  {[call |-> "reload", at |-> <<>>, exc |-> e] : e \in {"NotFound", "Forbidden"}}
  \cup {[call |-> "get_iam_policy", at |-> <<>>, exc |-> "Forbidden"]}
  \cup {[call |-> "list_blobs", at |-> at, exc |-> e] :
          at \in {F_root, F_a}, e \in {"NotFound", "Forbidden", "Other"}}

DispatchWorlds ==
  {World(objects, PrivateAcls(objects), {}, policy, http200, TRUE, NoFault) :
     objects \in SubsetsUpTo(DispatchKeys, MaxObjects),
     policy \in SeqsUpTo(DispatchBindings, MaxBindings),
     http200 \in SUBSET DispatchProbePaths}
  \cup
  UNION {
    {World(objects, acl, {}, policy, http200, FALSE, NoFault) :
       acl \in {PrivateAcls(objects), PublicAcls(objects)},
       policy \in SeqsUpTo(DispatchBindings, MaxBindings),
       http200 \in SUBSET DispatchProbePaths} :
    objects \in SubsetsUpTo(DispatchKeys, MaxObjects)}
  \cup
  {[World(objects, PrivateAcls(objects), {}, policy, http200, TRUE, NoFault)
      EXCEPT !.http200Again = http200 \cup {F_root}] :
     objects \in SubsetsUpTo(DispatchKeys, MaxObjects),
     policy \in {<<>>, <<B_ViewerStartsA>>},
     http200 \in SUBSET {F_a}}
  \cup
  {World(DispatchKeys, PrivateAcls(DispatchKeys), {}, policy, {}, uniform, fault) :
     policy \in {<<>>, <<B_ViewerStartsA>>},
     uniform \in BOOLEAN,
     fault \in DispatchFaults}

InitDispatch ==
  /\ world \in DispatchWorlds
  /\ project = <<>>
  /\ op = NoOp
  /\ result = NoResult
  /\ calls = <<>>

\* A call of scan_bucket, for the whole bucket or for one folder.
ScanBucket ==
  /\ Idle
  /\ \E folder_path \in DispatchFolderArgs :
       Finish("scan_bucket", folder_path, FALSE, scan_bucket(world, BUCKET, folder_path))

\* A direct call of scan_bucket_uniform_access.
ScanBucketUniformAccess ==
  /\ Idle
  /\ Finish("scan_bucket_uniform_access", <<>>, FALSE,
            scan_bucket_uniform_access(world, BUCKET))

\* A direct call of scan_bucket_fine_grained_access.
ScanBucketFineGrainedAccess ==
  /\ Idle
  /\ Finish("scan_bucket_fine_grained_access", <<>>, FALSE,
            scan_bucket_fine_grained_access(world, BUCKET))

NextDispatch == ScanBucket \/ ScanBucketUniformAccess \/ ScanBucketFineGrainedAccess

SpecDispatch == InitDispatch /\ [][NextDispatch]_vars

-----------------------------------------------------------------------------
(* Claims about the dispatcher (specification SpecDispatch) *)

\* The external calls of the log made through fn.
CallsOf(fn) == {i \in DOMAIN calls : calls[i].fn = fn}

\* One of the two whole-bucket scan functions was called on a bucket of the
\* other access mode, whose metadata the backend returned.
ModeMismatchCall ==
  /\ world.fault.call # "reload"
  /\ \/ op.name = "scan_bucket_fine_grained_access" /\ world.uniform
     \/ op.name = "scan_bucket_uniform_access" /\ ~world.uniform

\* C6: a whole-bucket scan function called on a bucket of the other mode
\* returns (raises nothing) a result made of an 'error' text, the bucket
\* name and the bucket's actual mode, with no tree, and issues no call
\* beyond the metadata reload: no policy fetch, listing or probe.
C6_ModeMismatchIsResult ==
  ModeMismatchCall =>
    /\ result.ok
    /\ DOMAIN result.val = {"error", "bucket_name", "uniform_access"}
    /\ result.val.uniform_access = world.uniform
    /\ result.val.bucket_name = BUCKET
    /\ \A i \in DOMAIN calls : calls[i].fn = "reload"

\* C6 witness: the uniform scan was called on a fine-grained bucket that
\* holds objects and a policy, and answered with the mismatch result.
C6_Witness ==
  /\ ModeMismatchCall
  /\ op.name = "scan_bucket_uniform_access"
  /\ world.objects # {}
  /\ world.policy # <<>>
  /\ result.ok
  /\ "error" \in DOMAIN result.val

\* An unconditional binding of an object-read role to a public principal.
BucketWidePublicBinding(b) ==
  /\ \E i \in DOMAIN b.members : b.members[i] \in {"allUsers", "allAuthenticatedUsers"}
  /\ b.role \in {VIEWER, LEGACY_READER}
  /\ ~b.has_condition

\* The bucket itself is publicly exposed.
BucketPubliclyExposed ==
  \/ \E i \in DOMAIN world.policy : BucketWidePublicBinding(world.policy[i])
  \/ F_root \in world.http200

\* A whole-bucket scan in the bucket's own mode, with a healthy backend.
WholeBucketScan ==
  /\ world.fault.call = "none"
  /\ \/ op.name = "scan_bucket" /\ op.folder_path = <<>>
     \/ op.name = "scan_bucket_uniform_access" /\ world.uniform
     \/ op.name = "scan_bucket_fine_grained_access" /\ ~world.uniform

\* The result is the bucket-level short-circuit: CRITICAL, and no tree.
IsCriticalShortCircuit(val) ==
  /\ "bucket_level_public" \in DOMAIN val
  /\ val.bucket_level_public
  /\ val.summary.status = "CRITICAL"
  /\ IF "folders" \in DOMAIN val
     THEN val.folders = <<>> /\ "root_objects" \notin DOMAIN val
     ELSE val.folder_tree = None

\* No listing, no ACL read, and no probe of anything but the bucket root.
NoWalkCalls ==
  \A i \in DOMAIN calls :
    /\ calls[i].fn \notin {"list_blobs", "blob.acl"}
    /\ calls[i].fn = "requests.head" => calls[i].arg = F_root

\* C7 as claimed: a whole-bucket scan of a publicly exposed bucket (a
\* bucket-wide public binding, or a root probe answering 200) returns the
\* CRITICAL short-circuit result and issues no listing and no per-folder or
\* per-object probe.
C7_BucketLevelShortCircuit ==
  (WholeBucketScan /\ BucketPubliclyExposed) =>
    /\ result.ok
    /\ IsCriticalShortCircuit(result.val)
    /\ NoWalkCalls

\* The bucket is public by the test of the fine-grained whole-bucket scan
\* itself: an unconditional public object-viewer binding, or the root probe.
ExposedForFineGrained ==
  \/ \E i \in DOMAIN world.policy :
       BucketWidePublicBinding(world.policy[i]) /\ world.policy[i].role = VIEWER
  \/ F_root \in world.http200

\* C8 as claimed: scan_bucket with a folder path on a fine-grained bucket
\* that is publicly exposed returns the CRITICAL short-circuit result
\* without walking or probing any object.
C8_FolderScanShortCircuit ==
  ( /\ op.name = "scan_bucket"
    /\ op.folder_path # <<>>
    /\ ~world.uniform
    /\ world.fault.call = "none"
    /\ ExposedForFineGrained ) =>
    /\ result.ok
    /\ IsCriticalShortCircuit(result.val)
    /\ NoWalkCalls

-----------------------------------------------------------------------------
(* The 'scan expose' command *)

\* What the backend answers for a bucket name the project does not hold.
MissingBucket ==
  World({}, PrivateAcls({}), {}, <<>>, {}, TRUE,
        [call |-> "reload", at |-> <<>>, exc |-> "NotFound"])

\* self.client.bucket(name)
BucketNamed(buckets, name) ==
  IF \E i \in DOMAIN buckets : buckets[i].name = name
  THEN buckets[CHOOSE i \in DOMAIN buckets : buckets[i].name = name].world
  ELSE MissingBucket

\* GCSAnalyzer.list_accessible_buckets: the names of the buckets whose IAM
\* policy can be fetched, in the order the project lists them; a failing
\* client.list_buckets() becomes a ValueError.
list_accessible_buckets(proj) ==
  IF proj.list_fault
  THEN Raise(Exc("ValueError", <<"Bucket listing error: ", "503">>),
             <<Call("list_buckets", <<>>)>>)
  ELSE LET accessible == SelectSeq(proj.buckets,
                                   LAMBDA b : b.world.fault.call # "get_iam_policy")
       IN Ok([i \in DOMAIN accessible |-> accessible[i].name],
             <<Call("list_buckets", <<>>)>>)

\* The loop `for target_bucket in targets` of scan_expose, which has no
\* try of its own: the first scan_bucket that raises ends it.  acc holds
\* all_results, what print_expose_result has shown, the buckets whose scan
\* was started, the calls issued and the exception that ended the loop.
RECURSIVE SweepLoop(_, _, _, _)
SweepLoop(buckets, targets, to_terminal, acc) ==
  IF targets = <<>> THEN acc
  ELSE
    LET target_bucket == Head(targets)
        seen == Append(acc.scanned, target_bucket)
    IN With(scan_bucket(BucketNamed(buckets, target_bucket), target_bucket, <<>>),
       LAMBDA res :
         IF ~res.ok
         THEN [acc EXCEPT !.scanned = seen, !.raised = TRUE, !.exc = res.exc,
                          !.calls = acc.calls \o res.calls]
         ELSE With([acc EXCEPT !.scanned = seen,
                               !.all_results = Append(acc.all_results, res.val),
                               !.printed = IF to_terminal
                                           THEN Append(acc.printed, res.val)
                                           ELSE acc.printed,
                               !.calls = acc.calls \o res.calls],
              LAMBDA next : SweepLoop(buckets, Tail(targets), to_terminal, next)))

\* final_result = all_results[0] if len(all_results) == 1 else all_results
FinalResults(all_results) ==
  IF Len(all_results) = 1
  THEN [is_list |-> FALSE, value |-> all_results[1]]
  ELSE [is_list |-> TRUE, value |-> all_results]

\* The part of scan_expose after the targets are known.  written is what
\* reaches the JSON or HTML report, printed what print_expose_result shows,
\* logged the LOGGER.error of the except clause.
SweepAndReport(buckets, targets, output_format, output_file, before) ==
  LET html_without_file == output_format = "html" /\ ~output_file
  IN With(SweepLoop(buckets, targets, output_format = "text" /\ ~output_file,
                    [scanned |-> <<>>, all_results |-> <<>>, printed |-> <<>>,
                     raised |-> FALSE, exc |-> <<>>, calls |-> before]),
     LAMBDA loop :
       [targets |-> targets,
        scanned |-> loop.scanned,
        printed |-> loop.printed,
        written |-> IF ~loop.raised /\ output_format \in {"json", "html"}
                       /\ ~html_without_file
                    THEN <<FinalResults(loop.all_results)>>
                    ELSE <<>>,
        logged |-> IF loop.raised THEN <<loop.exc>>
                   ELSE IF html_without_file
                   THEN <<Exc("UsageError",
                              <<"For HTML format, --output-file is required.">>)>>
                   ELSE <<>>,
        usage_error |-> FALSE,
        exit_status |-> 0,
        calls |-> loop.calls])

\* cli.scan_expose, for --bucket <name> (bucket, "" when absent) or --all.
\* The function returns normally on every path, so the exit status is 0.
scan_expose(proj, bucket, scan_all, output_format, output_file) ==
  IF bucket = "" /\ ~scan_all
  THEN [targets |-> <<>>, scanned |-> <<>>, printed |-> <<>>, written |-> <<>>,
        logged |-> <<>>, usage_error |-> TRUE, exit_status |-> 0, calls |-> <<>>]
  ELSE IF bucket # ""
  THEN SweepAndReport(proj.buckets, <<bucket>>, output_format, output_file, <<>>)
  ELSE With(list_accessible_buckets(proj), LAMBDA listed :
         IF ~listed.ok
         THEN [targets |-> <<>>, scanned |-> <<>>, printed |-> <<>>, written |-> <<>>,
               logged |-> <<listed.exc>>, usage_error |-> FALSE, exit_status |-> 0,
               calls |-> listed.calls]
         ELSE SweepAndReport(proj.buckets, listed.val, output_format, output_file,
                             listed.calls))

-----------------------------------------------------------------------------
(* Specification SpecCli: the 'scan expose' command over a project *)

BucketNames == <<"b1", "b2", "b3", "b4">>

\* The buckets a project may hold: private and partly public ones of both
\* modes, one public at bucket level, and ones whose metadata, listing or
\* policy the caller cannot read.
CliWorlds(name) ==
  {World({K_ax}, PrivateAcls({K_ax}), {}, <<>>, {}, TRUE, NoFault),
   World({K_ax}, PrivateAcls({K_ax}), {},
         <<Binding(VIEWER, <<"allUsers">>, TRUE, Expr("startsWith", name, F_a))>>,
         {}, TRUE, NoFault),
   World({K_x}, PublicAcls({K_x}), {}, <<>>, {}, FALSE, NoFault),
   World({K_x}, PrivateAcls({K_x}), {}, <<B_ViewerUncond>>, {}, TRUE, NoFault),
   World({K_ax}, PrivateAcls({K_ax}), {}, <<>>, {}, TRUE,
         [call |-> "reload", at |-> <<>>, exc |-> "Forbidden"]),
   World({K_ax}, PrivateAcls({K_ax}), {}, <<>>, {}, FALSE,
         [call |-> "reload", at |-> <<>>, exc |-> "NotFound"]),
   World({K_ax}, PrivateAcls({K_ax}), {}, <<>>, {}, TRUE,
         [call |-> "list_blobs", at |-> F_root, exc |-> "Other"]),
   World({K_ax}, PrivateAcls({K_ax}), {}, <<>>, {}, TRUE,
         [call |-> "get_iam_policy", at |-> <<>>, exc |-> "Forbidden"])}

\* The projects of n buckets, named in the order the backend lists them.
CliBuckets(n) ==
  {[i \in 1..n |-> [name |-> BucketNames[i], world |-> ws[i]]] :
     ws \in [1..n -> UNION {CliWorlds(BucketNames[i]) : i \in 1..n}]}

CliProjects ==
  {[buckets |-> bs, list_fault |-> lf] :
     bs \in UNION {CliBuckets(n) : n \in 0..MaxTargets}, lf \in BOOLEAN}

InitCli ==
  /\ project \in CliProjects
  /\ world = MissingBucket
  /\ op = NoOp
  /\ result = NoResult
  /\ calls = <<>>

\* One run of `gcstoragenlyzer scan expose`.
ScanExpose ==
  /\ Idle
  /\ \E bucket \in {"", "b1", "b9"}, scan_all \in BOOLEAN,
        output_format \in {"text", "json", "html"}, output_file \in BOOLEAN :
       \E out \in {scan_expose(project, bucket, scan_all, output_format, output_file)} :
         /\ op' = [name |-> "scan_expose", bucket |-> bucket, scan_all |-> scan_all,
                   output_format |-> output_format, output_file |-> output_file]
         /\ result' = [targets |-> out.targets, scanned |-> out.scanned,
                       printed |-> out.printed, written |-> out.written,
                       logged |-> out.logged, usage_error |-> out.usage_error,
                       exit_status |-> out.exit_status]
         /\ calls' = out.calls
         /\ UNCHANGED <<world, project>>

NextCli == ScanExpose

SpecCli == InitCli /\ [][NextCli]_vars

-----------------------------------------------------------------------------
(* Claims about the sweep (specification SpecCli) *)

\* The buckets whose result reached the terminal or the report.
ReportedBuckets ==
  {result.printed[i].bucket_name : i \in DOMAIN result.printed}
  \cup (IF result.written = <<>> THEN {}
        ELSE IF result.written[1].is_list
        THEN {result.written[1].value[i].bucket_name :
                i \in DOMAIN result.written[1].value}
        ELSE {result.written[1].value.bucket_name})

\* An --all run whose bucket listing succeeded.
SweepRan ==
  /\ op.name = "scan_expose"
  /\ op.bucket = ""
  /\ op.scan_all
  /\ ~project.list_fault

\* The run asked for an output that shows results: the terminal, a JSON
\* report, or an HTML report with its file.
OutputRequested ==
  \/ op.output_format = "text" /\ ~op.output_file
  \/ op.output_format = "json"
  \/ op.output_format = "html" /\ op.output_file

\* C10: in an --all sweep, a failure while scanning one bucket does not
\* abort the sweep: every accessible bucket of the target list is scanned,
\* and the result of every bucket whose own scan succeeds is reported.
C10_SweepIsolation ==
  SweepRan =>
    \A name \in Range(list_accessible_buckets(project).val) :
      /\ name \in Range(result.scanned)
      /\ (OutputRequested
          /\ scan_bucket(BucketNamed(project.buckets, name), name, <<>>).ok)
         => name \in ReportedBuckets

-----------------------------------------------------------------------------
(* Claims about errors of the dispatcher (specification SpecDispatch) *)

\* The scan issued the call that the backend answers with its failure.
FaultReached ==
  /\ world.fault.call # "none"
  /\ \E i \in DOMAIN calls :
       /\ calls[i].fn = world.fault.call
       /\ world.fault.call = "list_blobs" => calls[i].arg = world.fault.at

\* C11 as claimed: a scan_bucket whose backend answers permission-denied at
\* a call of the scan ends with PermissionError naming the bucket, and one
\* whose backend answers not-found ends with a ValueError naming the bucket.
C11_ErrorKindPreserved ==
  (op.name = "scan_bucket" /\ FaultReached) =>
    /\ ~result.ok
    /\ world.fault.exc = "Forbidden" =>
         result.exc.type = "PermissionError" /\ BUCKET \in Range(result.exc.msg)
    /\ world.fault.exc = "NotFound" =>
         result.exc.type = "ValueError" /\ BUCKET \in Range(result.exc.msg)

-----------------------------------------------------------------------------
(* Claims about the exit of the command (specification SpecCli) *)

\* A scan of the run raised: the except clause logged a scan's exception.
ScanFailed ==
  /\ result.logged # <<>>
  /\ result.logged[1].type \in {"PermissionError", "ValueError"}

\* C12 as claimed: 'scan expose' ends with a non-zero exit status when a
\* scan failed (bucket not found, permission denied), and with exit status
\* zero when every scan returned, whatever exposure it found.
C12_ExitStatus ==
  (op.name = "scan_expose" /\ ~result.usage_error) =>
    /\ ScanFailed => result.exit_status # 0
    /\ result.logged = <<>> => result.exit_status = 0

-----------------------------------------------------------------------------
(* Claims about failures inside the fine-grained tree (specification SpecFine) *)

\* C13 as claimed: every object that the scan reaches appears in the tree,
\* also one whose classification failed, and total_object_count counts it.
C13_NoSilentOmission ==
  FineTreeReturned =>
    /\ \A o \in ObjectsUnder(op.folder_path) :
         \E e \in ObjectEntries(result.val) : e.name = o
    /\ result.val.total_object_count = Cardinality(ObjectsUnder(op.folder_path))

-----------------------------------------------------------------------------
(* Specification SpecTrees: both tree builders over buckets whose listings *)
(* may fail *)

ListedKeys == {K_x, K_ax, K_ay, K_abx, K_abdx, K_aax, K_bx, K_adx}

\* A listing, at the root or below it, that the backend refuses.
ListingFaults ==
  {[call |-> "list_blobs", at |-> at, exc |-> e] :
     at \in {F_root, F_a, F_ab}, e \in {"NotFound", "Forbidden", "Other"}}

ListedWorlds ==
  {World(objects, PrivateAcls(objects), {}, <<>>, {}, TRUE, fault) :
     objects \in SubsetsUpTo(ListedKeys, MaxObjects),
     fault \in {NoFault} \cup ListingFaults}

InitTrees ==
  /\ world \in ListedWorlds
  /\ project = <<>>
  /\ op = NoOp
  /\ result = NoResult
  /\ calls = <<>>

NextTrees == ScanFolderRecursive \/ BuildFineGrainedTree \/ ScanBucketUniformAccess

SpecTrees == InitTrees /\ [][NextTrees]_vars

-----------------------------------------------------------------------------
(* Claims about the shape of the trees (specification SpecTrees) *)

\* One of the two tree builders was called.
TreeBuilderCalled == op.name \in {"scan_folder_recursive", "build_fine_grained_tree"}

\* The sub-prefixes and objects that the backend lists under a prefix.
ListedFolders(prefix) == sorted(list_blobs(world, prefix).prefixes)
ListedObjects(prefix) ==
  sorted({n \in list_blobs(world, prefix).blobs : ~EndsWithSlash(n)})

\* A uniform-mode node holds the listed objects and one node for every
\* listed sub-prefix, each complete in turn.
RECURSIVE UniformComplete(_)
UniformComplete(n) ==
  /\ n.objects = ListedObjects(n.path)
  /\ [i \in DOMAIN n.subfolders |-> n.subfolders[i].path] = ListedFolders(n.path)
  /\ \A i \in DOMAIN n.subfolders : UniformComplete(n.subfolders[i])

\* A fine-grained node built for prefix holds one node for every listed
\* sub-prefix, each complete in turn.
RECURSIVE FineComplete(_, _)
FineComplete(n, prefix) ==
  /\ n.path = TreePath(prefix)
  /\ Len(n.subfolders) = Len(ListedFolders(prefix))
  /\ \A i \in DOMAIN n.subfolders :
       FineComplete(n.subfolders[i], ListedFolders(prefix)[i])

\* C14: a tree builder one of whose listings fails, at any depth, ends with
\* an error and returns no tree; every tree that is returned holds, at each
\* node, a complete node for every sub-prefix the node's listing returned.
C14_NoPartialTree ==
  TreeBuilderCalled =>
    /\ FaultReached => ~result.ok /\ result.val = <<>>
    /\ (result.ok /\ op.name = "scan_folder_recursive") => UniformComplete(result.val)
    /\ (result.ok /\ op.name = "build_fine_grained_tree")
         => FineComplete(result.val, op.folder_path)

\* C14 witness: a listing below the scanned prefix failed, after the listing
\* of the scanned prefix itself had succeeded, and the scan ended in error.
C14_Witness ==
  /\ TreeBuilderCalled
  /\ FaultReached
  /\ world.fault.at # op.folder_path
  /\ Len(calls) > 1
  /\ ~result.ok

-----------------------------------------------------------------------------
(* Claims about the summary of a whole-bucket scan (specification SpecDispatch) *)

\* A whole-bucket scan returned a result other than the mode mismatch.
WholeBucketResult ==
  /\ \/ op.name = "scan_bucket" /\ op.folder_path = <<>>
     \/ op.name \in {"scan_bucket_uniform_access", "scan_bucket_fine_grained_access"}
  /\ result.ok
  /\ "error" \notin DOMAIN result.val

\* Something contained in the result is reported public: a folder at any
\* depth, the root-level object group, or an object.
AnythingReportedPublic(val) ==
  IF "folders" \in DOMAIN val
  THEN \/ \E i \in DOMAIN val.folders : \E n \in TreeNodes(val.folders[i]) : n.is_public
       \/ "root_objects" \in DOMAIN val /\ val.root_objects.status = "PUBLIC"
  ELSE /\ val.folder_tree # None
       /\ \E e \in ObjectEntries(val.folder_tree) : e.is_public

\* The public count of a summary does not exceed its total count.
CountsConsistent(summary) ==
  /\ "public_folders" \in DOMAIN summary => summary.public_folders <= summary.total_folders
  /\ "public_objects" \in DOMAIN summary => summary.public_objects <= summary.total_objects

\* C15 as claimed: the status of a whole-bucket result is CRITICAL exactly
\* when bucket_level_public is true, otherwise WARNING exactly when a
\* folder, the root-level object group or an object of the result is
\* reported public, and SAFE otherwise; public counts never exceed totals.
C15_SummaryConsistent ==
  WholeBucketResult =>
    /\ result.val.summary.status \in {"CRITICAL", "WARNING", "SAFE"}
    /\ result.val.summary.status = "CRITICAL" <=> result.val.bucket_level_public
    /\ ~result.val.bucket_level_public =>
         (result.val.summary.status = "WARNING" <=> AnythingReportedPublic(result.val))
    /\ CountsConsistent(result.val.summary)

-----------------------------------------------------------------------------
(* Claims about sibling order (specification SpecTrees) *)

\* s < t in Python's str order.
LexLess(s, t) == LexLeq(s, t) /\ s # t

\* A list of strings in strictly ascending order.
Ascending(seq) == \A i, j \in DOMAIN seq : i < j => LexLess(seq[i], seq[j])

PathsOf(nodes) == [i \in DOMAIN nodes |-> nodes[i].path]
NamesOf(nodes) == [i \in DOMAIN nodes |-> nodes[i].name]

\* The uniform-mode trees of the result: the tree of a folder scan, or the
\* top-level folders of a whole-bucket scan.
UniformTreesReturned ==
  IF ~result.ok THEN {}
  ELSE IF op.name = "scan_folder_recursive" THEN {result.val}
  ELSE IF op.name = "scan_bucket_uniform_access" /\ "folders" \in DOMAIN result.val
  THEN Range(result.val.folders)
  ELSE {}

\* Objects by key and sub-nodes by listed prefix are ascending at every node
\* of a fine-grained tree built for prefix.
RECURSIVE FineOrdered(_, _)
FineOrdered(n, prefix) ==
  /\ Ascending(NamesOf(n.objects))
  /\ Ascending(ListedFolders(prefix))
  /\ PathsOf(n.subfolders) = [i \in DOMAIN n.subfolders |-> TreePath(ListedFolders(prefix)[i])]
  /\ \A i \in DOMAIN n.subfolders : FineOrdered(n.subfolders[i], ListedFolders(prefix)[i])

\* C16 as claimed: at every node of a uniform-mode tree the subfolders are
\* in ascending order of their name.
C16_SortedByName ==
  \A t \in UniformTreesReturned : \A n \in TreeNodes(t) :
    \A i, j \in DOMAIN n.subfolders :
      i < j => LexLeq(n.subfolders[i].name, n.subfolders[j].name)

\* C16 as amended: in every returned tree the objects of a node are in
\* ascending order of their full key, and the subfolders of a node, like
\* the top-level folders, in ascending order of their listed prefix, the
\* trailing '/' included.
C16_SortedByKey ==
  /\ \A t \in UniformTreesReturned : \A n \in TreeNodes(t) :
       Ascending(n.objects) /\ Ascending(PathsOf(n.subfolders))
  /\ (op.name = "scan_bucket_uniform_access" /\ result.ok
      /\ "folders" \in DOMAIN result.val) => Ascending(PathsOf(result.val.folders))
  /\ (op.name = "build_fine_grained_tree" /\ result.ok)
       => FineOrdered(result.val, op.folder_path)

\* C16 witness: a node of a returned tree holds an object and two
\* subfolders whose names are not in the order of their prefixes.
C16_Witness ==
  \E t \in UniformTreesReturned : \E n \in TreeNodes(t) :
    /\ Len(n.objects) >= 1
    /\ Len(n.subfolders) >= 2
    /\ ~LexLeq(n.subfolders[1].name, n.subfolders[2].name)

-----------------------------------------------------------------------------
(* Claims about termination of the tree builders (specification SpecTrees) *)

\* The prefixes listed during the call, in the order of the listings: one
\* listing per call of a tree builder, the first for the call itself.
ListedPrefixes ==
  LET listings == SelectSeq(calls, LAMBDA c : c.fn = "list_blobs")
  IN [i \in DOMAIN listings |-> listings[i].arg]

\* t continues s and is longer.
StrictlyExtends(t, s) == StartsWith(t, s) /\ Len(t) > Len(s)

\* The '/'-terminated proper prefixes of the keys of the bucket.
KeyPrefixes ==
  UNION {{SubSeq(k, 1, i) : i \in {j \in 1..Len(k) : k[j] = SLASH}} : k \in world.objects}

\* C17: a call of a tree builder returns, and every recursive call it made
\* was for a prefix strictly longer than, and continuing, the prefix of its
\* caller: the prefixes listed after the first are distinct '/'-terminated
\* prefixes of keys of the bucket, each continuing an earlier one, so their
\* number is bounded by the keys of the bucket.
C17_StructuralTermination ==
  TreeBuilderCalled =>
    /\ ListedPrefixes # <<>> /\ ListedPrefixes[1] = op.folder_path
    /\ \A k \in DOMAIN ListedPrefixes : k > 1 =>
         /\ ListedPrefixes[k] \in KeyPrefixes
         /\ \E j \in 1..(k - 1) : StrictlyExtends(ListedPrefixes[k], ListedPrefixes[j])
         /\ \A j \in 1..(k - 1) : ListedPrefixes[j] # ListedPrefixes[k]
    /\ \A t \in UniformTreesReturned : \A n \in TreeNodes(t) :
         \A i \in DOMAIN n.subfolders : StrictlyExtends(n.subfolders[i].path, n.path)

\* C17 witness: a tree builder returned after recursing two levels deep.
C17_Witness ==
  /\ TreeBuilderCalled
  /\ result.ok
  /\ \E i, j \in DOMAIN ListedPrefixes :
       /\ StrictlyExtends(ListedPrefixes[i], op.folder_path)
       /\ StrictlyExtends(ListedPrefixes[j], ListedPrefixes[i])

-----------------------------------------------------------------------------
(* Claims about the reading of the access mode (specification SpecDispatch) *)

\* C18 as claimed: a scan_bucket invocation whose metadata can be read reads
\* the bucket's access mode (bucket.reload()) exactly once, for the whole
\* bucket as for a single folder, in either mode.
C18_ModeReadOnce ==
  (op.name = "scan_bucket" /\ world.fault.call # "reload") =>
    Cardinality(CallsOf("reload")) = 1

-----------------------------------------------------------------------------
(* Specification SpecIam: the ExposureMap of a policy *)

IamBindings ==
  {B_ViewerUncond, B_LegacyUncond, B_ViewerStartsA, B_ViewerStartsB, B_LegacyMatchesAB,
   B_AdminStartsB, B_AdminUncond, B_ViewerPrivate, B_ViewerOther, B_LegacyElsewhere}

IamWorlds ==
  {World({}, PrivateAcls({}), {}, policy, {}, TRUE, NoFault) :
     policy \in SeqsUpTo(IamBindings, MaxBindings + 1)}

\* The names under which the bucket is scanned.
IamBucketNames == {BUCKET, "b.t"}

InitIam ==
  /\ world \in IamWorlds
  /\ \E name \in IamBucketNames : project = <<[name |-> name, world |-> world]>>
  /\ op = NoOp
  /\ result = NoResult
  /\ calls = <<>>

\* A call of get_exposed_prefixes_from_iam on the bucket's policy.
GetExposedPrefixesFromIam ==
  /\ Idle
  /\ Finish("get_exposed_prefixes_from_iam", <<>>, FALSE,
            Ok(get_exposed_prefixes_from_iam(world.policy, project[1].name), <<>>))

NextIam == GetExposedPrefixesFromIam

SpecIam == InitIam /\ [][NextIam]_vars

-----------------------------------------------------------------------------
(* Claims about the ExposureMap (specification SpecIam) *)

ExposureMapReturned == op.name = "get_exposed_prefixes_from_iam"

\* The binding passes both tests: an object-read role, a public member.
PublicReadBinding(b) ==
  /\ b.role \in {VIEWER, LEGACY_READER}
  /\ \E i \in DOMAIN b.members : b.members[i] \in {"allUsers", "allAuthenticatedUsers"}

\* The entry records the binding: its role, and of its members the public
\* ones only.
RecordsBinding(e, b) ==
  /\ e.role = b.role
  /\ Range(e.members) = Range(b.members) \cap {"allUsers", "allAuthenticatedUsers"}
  /\ e.condition = IF b.has_condition THEN b.expression
                   ELSE [text |-> "No condition - bucket level public"]

\* C19: every entry of the ExposureMap records a binding of the policy that
\* has an object-read role and a public member, with the public members
\* only; the bindings failing either test add nothing: the map is the map
\* of the policy without them.
C19_BindingFilter ==
  ExposureMapReturned =>
    /\ \A key \in DOMAIN result.val : \A k \in DOMAIN result.val[key] :
         \E i \in DOMAIN world.policy :
           /\ PublicReadBinding(world.policy[i])
           /\ RecordsBinding(result.val[key][k], world.policy[i])
    /\ result.val = get_exposed_prefixes_from_iam(
                      SelectSeq(world.policy, PublicReadBinding), project[1].name)

\* C19 witness: the policy holds a binding that passes both tests, one with
\* a public member and another role, and one of a read role without public
\* member; the map has an entry.
C19_Witness ==
  /\ ExposureMapReturned
  /\ result.val # <<>>
  /\ \E i, j \in DOMAIN world.policy :
       /\ PublicReadBinding(world.policy[i])
       /\ ~PublicReadBinding(world.policy[j])
       /\ world.policy[j] \in {B_AdminStartsB, B_AdminUncond}
  /\ \E i \in DOMAIN world.policy : world.policy[i] = B_ViewerPrivate

\* The binding's condition has one of the two shapes and names the bucket.
ConditionNames(b, bucket_name) ==
  /\ b.expression.shape \in {"startsWith", "matches"}
  /\ b.expression.bucket = bucket_name
  /\ Len(b.expression.arg) > 0

\* A public object-read binding whose condition has neither shape for the
\* bucket.
Unrecognized(b, bucket_name) ==
  PublicReadBinding(b) /\ b.has_condition /\ ~ConditionNames(b, bucket_name)

\* C20: a public object-read binding whose condition has neither the
\* startsWith nor the matches shape for the scanned bucket yields no prefix
\* and adds nothing: the map returned is the map of the other bindings.
C20_SoftFailure ==
  ExposureMapReturned =>
    /\ \A i \in DOMAIN world.policy :
         Unrecognized(world.policy[i], project[1].name) =>
           _extract_prefix_from_condition(world.policy[i].expression, project[1].name) = None
    /\ result.ok
    /\ result.val = get_exposed_prefixes_from_iam(
                      SelectSeq(world.policy,
                                LAMBDA b : ~Unrecognized(b, project[1].name)),
                      project[1].name)

\* C20 for a bucket name without '.': the claim's case, away from the
\* interpolated pattern.
C20_SoftFailurePlainName ==
  project[1].name = BUCKET => C20_SoftFailure

\* The claim's case with a plain name: an unrecognized condition between
\* two bindings that are recorded.
C20_PlainNameCase ==
  /\ ExposureMapReturned
  /\ project[1].name = BUCKET
  /\ Len(world.policy) = 3
  /\ Unrecognized(world.policy[2], BUCKET)
  /\ \E key \in DOMAIN result.val : Len(result.val[key]) = 2

-----------------------------------------------------------------------------
(* Specification SpecProbe: scans of buckets whose anonymous probes may end *)
(* in a network failure or a timeout *)

ProbeKeys == {K_x, K_ax, K_abx}
ProbeFailPaths == {F_root, F_a, K_x, K_ax}
ProbeOkPaths == {F_a, F_ab, K_abx}

ProbeWorlds ==
  {[World(objects, PrivateAcls(objects), {}, policy, http200, uniform, NoFault)
      EXCEPT !.httpNetFail = failing] :
     objects \in SubsetsUpTo(ProbeKeys, MaxObjects),
     policy \in {<<>>, <<B_ViewerStartsA>>},
     http200 \in SUBSET ProbeOkPaths,
     uniform \in BOOLEAN,
     failing \in SUBSET ProbeFailPaths}

InitProbe ==
  /\ world \in ProbeWorlds
  /\ project = <<>>
  /\ op = NoOp
  /\ result = NoResult
  /\ calls = <<>>

\* A call of check_public_access_http.
CheckPublicAccessHttp ==
  /\ Idle
  /\ \E path \in ProbeFailPaths \cup ProbeOkPaths :
       Finish("check_public_access_http", path, FALSE,
              check_public_access_http(world, BUCKET, path))

NextProbe ==
  CheckPublicAccessHttp \/ ScanFolderRecursive \/ BuildFineGrainedTree \/ ScanBucket

SpecProbe == InitProbe /\ [][NextProbe]_vars

-----------------------------------------------------------------------------
(* Claims about failing probes (specification SpecProbe) *)

\* The bucket with every failing probe answered by a status other than 200.
AnsweredNotPublic(w) ==
  [w EXCEPT !.httpNetFail = {},
            !.http200 = @ \ w.httpNetFail,
            !.http200Again = @ \ w.httpNetFail]

\* The outcome of the operation just run, had it run on the bucket w.
OutcomeOn(w) ==
  CASE op.name = "check_public_access_http" ->
         check_public_access_http(w, BUCKET, op.folder_path)
    [] op.name = "scan_folder_recursive" ->
         scan_folder_recursive(w, BUCKET, op.folder_path,
           get_exposed_prefixes_from_iam(w.policy, BUCKET), op.parent_is_public)
    [] op.name = "build_fine_grained_tree" ->
         build_fine_grained_tree(w, BUCKET, op.folder_path)
    [] op.name = "scan_bucket" -> scan_bucket(w, BUCKET, op.folder_path)

\* The probes of the operation just run that ended in a network failure.
FailedProbes ==
  {i \in DOMAIN calls : calls[i].fn = "requests.head" /\ calls[i].arg \in world.httpNetFail}

\* C21: a probe that ends in a network failure or a timeout returns false;
\* the scan that issued it returns what it returns when the probe is
\* answered by a status other than 200, and no scan ends in an error.
C21_ProbeFailureIsNegative ==
  ~Idle =>
    /\ (op.name = "check_public_access_http" /\ op.folder_path \in world.httpNetFail)
         => (result.ok /\ result.val = FALSE)
    /\ \E o \in {OutcomeOn(AnsweredNotPublic(world))} :
         /\ result = [ok |-> o.ok, val |-> o.val, exc |-> o.exc]
         /\ calls = o.calls
    /\ result.ok

\* C21 witness: a scan whose probe failed and that went on to issue
\* further calls after it.
C21_Witness ==
  /\ op.name \in {"scan_folder_recursive", "build_fine_grained_tree", "scan_bucket"}
  /\ result.ok
  /\ \E i \in FailedProbes : i < Len(calls)

-----------------------------------------------------------------------------
(* Specification SpecParse: the condition parser called again and again on *)
(* one analyzer, with other calls in between *)

ParseExprs == {b.expression : b \in {c \in IamBindings : c.has_condition}}

ParseWorld ==
  World({K_ax, K_abx}, PrivateAcls({K_ax, K_abx}), {},
        <<B_ViewerStartsA, B_LegacyMatchesAB>>, {F_ab}, TRUE, NoFault)

InitParse ==
  /\ world = ParseWorld
  /\ project = <<>>
  /\ op = NoOp
  /\ result = NoResult
  /\ calls = <<>>

\* What an operation in a row of calls leaves in the state: its outcome, and
\* its record at the end of the log.
FinishInARow(name, out, record) ==
  /\ op' = [name |-> name, folder_path |-> <<>>, parent_is_public |-> FALSE]
  /\ result' = [ok |-> out.ok, val |-> out.val, exc |-> out.exc]
  /\ calls' = Append(calls, record)
  /\ UNCHANGED <<world, project>>

\* The parse of one condition, as get_exposed_prefixes_from_iam does it:
\* the prefix, and the recursive flag of the entry.
ParseCondition ==
  /\ Len(calls) < MaxCallsInARow
  /\ \E expr \in ParseExprs, bucket_name \in IamBucketNames :
       \E prefix \in {_extract_prefix_from_condition(expr, bucket_name)} :
         FinishInARow("_extract_prefix_from_condition", Ok(prefix, <<>>),
           [fn |-> "_extract_prefix_from_condition",
            arg |-> [expr |-> expr, bucket_name |-> bucket_name],
            prefix |-> prefix,
            is_recursive |-> is_recursive(expr)])

\* A call of get_exposed_prefixes_from_iam between two parses.
ExposureMapInBetween ==
  /\ Len(calls) < MaxCallsInARow
  /\ \E bucket_name \in IamBucketNames :
       FinishInARow("get_exposed_prefixes_from_iam",
         Ok(get_exposed_prefixes_from_iam(world.policy, bucket_name), <<>>),
         Call("get_exposed_prefixes_from_iam", bucket_name))

\* A call of scan_folder_uniform_access between two parses.
ScanInBetween ==
  /\ Len(calls) < MaxCallsInARow
  /\ \E folder_path \in {F_a, F_b} :
       \E out \in {scan_folder_uniform_access(world, BUCKET, folder_path)} :
         FinishInARow("scan_folder_uniform_access",
           [ok |-> out.ok, val |-> out.val, exc |-> out.exc],
           Call("scan_folder_uniform_access", folder_path))

NextParse == ParseCondition \/ ExposureMapInBetween \/ ScanInBetween

SpecParse == InitParse /\ [][NextParse]_vars

-----------------------------------------------------------------------------
(* Claims about the condition parser (specification SpecParse) *)

ParsesLogged == {i \in DOMAIN calls : calls[i].fn = "_extract_prefix_from_condition"}

-----------------------------------------------------------------------------
(* Claims about the probes of the uniform-mode tree (specification Spec) *)

\* The folders of the returned tree for which the claim expects a probe:
\* the parent is not public and the normalized prefix is no key of the map.
FoldersToProbe ==
  {f \in NodesWithParentFlag(result.val, op.parent_is_public) :
     ~f.parent_is_public /\ RStrip(f.node.path) \notin DOMAIN PolicyMap}

ProbeCalls == {i \in DOMAIN calls : calls[i].fn = "requests.head"}

\* The URL path probed for a folder.
ProbePathOf(n) == RStrip(n.path) \o <<SLASH>>

\* C23: scan_folder_recursive probes exactly the folders whose parent is
\* not public and whose normalized prefix is no key of the ExposureMap, once
\* each; no folder below a public folder is probed.
C23_ProbeIsFallback ==
  UniformTreeReturned =>
    /\ Cardinality(ProbeCalls) = Cardinality(FoldersToProbe)
    /\ \A i \in ProbeCalls :
         Cardinality({j \in ProbeCalls : calls[j].arg = calls[i].arg})
           = Cardinality({f \in FoldersToProbe : ProbePathOf(f.node) = calls[i].arg})
    /\ \A f \in FoldersToProbe : \E i \in ProbeCalls : calls[i].arg = ProbePathOf(f.node)
    /\ \A n \in TreeNodes(result.val) :
         n.is_public =>
           \A k \in DOMAIN n.subfolders : \A d \in TreeNodes(n.subfolders[k]) :
             \A f \in FoldersToProbe : f.node # d

\* C23 witness: a tree with a probed folder that stays private, and below
\* it a folder public by the map, which is not probed.
C23_Witness ==
  /\ UniformTreeReturned
  /\ \E f \in FoldersToProbe : ~f.node.is_public
  /\ \E f \in NodesWithParentFlag(result.val, op.parent_is_public) :
       /\ ~f.parent_is_public
       /\ RStrip(f.node.path) \in DOMAIN PolicyMap
       /\ f.node # result.val
       /\ \A i \in ProbeCalls : calls[i].arg # ProbePathOf(f.node)

-----------------------------------------------------------------------------
(* Claims about the counters of the fine-grained tree (specification SpecFine) *)

RECURSIVE SumTotalCounts(_)
SumTotalCounts(subfolders) ==
  IF subfolders = <<>> THEN 0
  ELSE Head(subfolders).total_object_count + SumTotalCounts(Tail(subfolders))

RECURSIVE SumPublicCounts(_)
SumPublicCounts(subfolders) ==
  IF subfolders = <<>> THEN 0
  ELSE Head(subfolders).public_object_count + SumPublicCounts(Tail(subfolders))

\* The objects whose check was started and that have no entry in the tree.
SkippedObjects ==
  {o \in world.objects : \E i \in DOMAIN calls : calls[i].fn = "blob.acl" /\ calls[i].arg = o}
  \ {e.name : e \in ObjectEntries(result.val)}

\* C24: at every node of a fine-grained tree the total counter is the
\* length of the objects list plus the totals of the subfolders, the public
\* counter is the number of public entries plus the public counters of the
\* subfolders, and the public counter is at most the total; also when the
\* check of an object raised and the object was skipped.
C24_CounterInvariant ==
  FineTreeReturned =>
    \A n \in TreeNodes(result.val) :
      /\ n.total_object_count = Len(n.objects) + SumTotalCounts(n.subfolders)
      /\ n.public_object_count =
           Cardinality({i \in DOMAIN n.objects : n.objects[i].is_public})
           + SumPublicCounts(n.subfolders)
      /\ n.public_object_count <= n.total_object_count

\* C24 witness: a tree in which one object was skipped, with a public
\* object and an object in a subfolder.
C24_Witness ==
  /\ FineTreeReturned
  /\ SkippedObjects # {}
  /\ result.val.public_object_count >= 1
  /\ \E k \in DOMAIN result.val.subfolders :
       result.val.subfolders[k].total_object_count >= 1

-----------------------------------------------------------------------------
(* Claims about the bucket-level test of the two modes (specification *)
(* SpecDispatch) *)

\* A fine-grained whole-bucket scan with a healthy backend.
FineGrainedWholeScan ==
  /\ world.fault.call = "none"
  /\ ~world.uniform
  /\ \/ op.name = "scan_bucket_fine_grained_access"
     \/ op.name = "scan_bucket" /\ op.folder_path = <<>>

\* bucket_level_public of the uniform scan of the same bucket, with the same
\* policy and the same probe answers, were it in uniform mode.
UniformVerdict ==
  scan_bucket_uniform_access([world EXCEPT !.uniform = TRUE], BUCKET).val.bucket_level_public

\* C25 as claimed: a fine-grained whole-bucket scan reports
\* bucket_level_public exactly when the uniform scan would, that is exactly
\* when the policy holds an unconditional public object-read binding or the
\* root probe succeeds.
C25_SameBucketLevelTest ==
  FineGrainedWholeScan =>
    /\ result.ok
    /\ result.val.bucket_level_public = UniformVerdict
    /\ result.val.bucket_level_public = BucketPubliclyExposed

\* The uniform scan alone decides as the claim says.
C25_UniformTestIsAsClaimed ==
  (world.fault.call = "none" /\ world.uniform /\ op.name = "scan_bucket_uniform_access") =>
    result.val.bucket_level_public = BucketPubliclyExposed

-----------------------------------------------------------------------------
(* Claims relating the single-folder and the whole-bucket scan *)
(* (specification Spec) *)

\* The whole-bucket scan of the same bucket: same policy, same probe answers.
WholeBucketOutcome == scan_bucket_uniform_access(world, BUCKET)

\* The folders of the whole-bucket scan's trees.
WholeBucketFolders ==
  UNION {TreeNodes(WholeBucketOutcome.val.folders[i]) :
           i \in DOMAIN WholeBucketOutcome.val.folders}

\* A single-folder scan of a uniform-access bucket that is not public at
\* bucket level.
SingleFolderScanned ==
  /\ op.name = "scan_folder_uniform_access"
  /\ result.ok
  /\ WholeBucketOutcome.ok
  /\ ~WholeBucketOutcome.val.bucket_level_public

\* C26 as claimed: every folder of the tree of a single-folder scan has the
\* is_public value that the whole-bucket scan gives to the same folder.
C26_FolderScanAgreesWithBucketScan ==
  SingleFolderScanned =>
    \A n \in TreeNodes(result.val) : \A m \in WholeBucketFolders :
      m.path = n.path => m.is_public = n.is_public

\* The two scans do agree when the scanned folder lies directly under the
\* bucket root.
C26_AgreeAtTopLevel ==
  (SingleFolderScanned /\ op.folder_path \in {F_a, F_b}) =>
    \A n \in TreeNodes(result.val) : \A m \in WholeBucketFolders :
      m.path = n.path => m.is_public = n.is_public

-----------------------------------------------------------------------------
(* Claims about the lists of the ExposureMap (specification SpecIam) *)

\* The key that governs a qualifying binding: "" for an unconditional one,
\* the extracted prefix for a conditional one, none when nothing is extracted.
GovernedKey(b) ==
  IF ~b.has_condition THEN Some(<<>>)
  ELSE _extract_prefix_from_condition(b.expression, project[1].name)

\* The qualifying bindings of the policy that govern the key, in policy order.
BindingsFor(key) ==
  SelectSeq(world.policy,
            LAMBDA b : PublicReadBinding(b) /\ GovernedKey(b) = Some(key))

\* The list under the key holds one entry for each of these bindings, in order.
ListIsComplete(key) ==
  /\ key \in DOMAIN result.val
  /\ Len(result.val[key]) = Len(BindingsFor(key))
  /\ \A k \in DOMAIN result.val[key] : RecordsBinding(result.val[key][k], BindingsFor(key)[k])

\* C27 as claimed: the list under every key holds one entry for each
\* qualifying binding that governs the key, in the order of the policy; no
\* entry is lost or replaced by a later binding.
C27_MapCompleteAndOrdered ==
  ExposureMapReturned =>
    /\ \A i \in DOMAIN world.policy :
         (PublicReadBinding(world.policy[i]) /\ ~GovernedKey(world.policy[i]).none)
           => ListIsComplete(GovernedKey(world.policy[i]).str)
    /\ \A key \in DOMAIN result.val : ListIsComplete(key)

\* The lists under the keys other than "" are complete and in order.
C27_CompleteBelowRoot ==
  ExposureMapReturned =>
    \A key \in DOMAIN result.val : key # <<>> => ListIsComplete(key)

\* Two conditional bindings under one key, both kept, in order.
C27_TwoUnderOneKey ==
  /\ ExposureMapReturned
  /\ \E key \in DOMAIN result.val :
       key # <<>> /\ Len(result.val[key]) = 2 /\ result.val[key][1] # result.val[key][2]

-----------------------------------------------------------------------------
(* Specification SpecSensitive: the per-object classifiers and the *)
(* sensitive scan of a fine-grained bucket *)

SensitiveKeys == {K_x, K_ax}

\* What the objects of the bucket hold.
ContentKinds == {"secret", "clean"}

SensitiveWorlds ==
  UNION {
    {[World(objects, acl, aclFail, <<>>, http200, FALSE, NoFault)
        EXCEPT !.httpCrash = crash] :
       acl \in [objects -> AclChoices],
       aclFail \in SubsetsUpTo(objects, 1),
       http200 \in SUBSET objects,
       crash \in SubsetsUpTo(objects, 1)} :
    objects \in SubsetsUpTo(SensitiveKeys, MaxObjects)}

InitSensitive ==
  /\ world \in SensitiveWorlds
  /\ \E secrets \in SUBSET world.objects :
       project = [contents |-> [o \in world.objects |->
                                  IF o \in secrets THEN "secret" ELSE "clean"]]
  /\ op = NoOp
  /\ result = NoResult
  /\ calls = <<>>

\* A call of _is_object_public.
IsObjectPublic ==
  /\ Idle
  /\ \E object_name \in world.objects :
       Finish("_is_object_public", object_name, FALSE,
              _is_object_public(world, BUCKET, object_name))

\* A call of scan_folder_sensitive.
ScanFolderSensitive ==
  /\ Idle
  /\ \E folder_path \in {<<>>, <<"a">>}, public_only \in BOOLEAN :
       \E out \in {scan_folder_sensitive(world, project.contents, BUCKET,
                                         folder_path, public_only)} :
         /\ op' = [name |-> "scan_folder_sensitive", folder_path |-> folder_path,
                   parent_is_public |-> FALSE, public_only |-> public_only]
         /\ result' = [ok |-> out.ok, val |-> out.val, exc |-> out.exc]
         /\ calls' = out.calls
         /\ UNCHANGED <<world, project>>

NextSensitive == IsObjectPublic \/ ScanFolderSensitive \/ BuildFineGrainedTree

SpecSensitive == InitSensitive /\ [][NextSensitive]_vars

-----------------------------------------------------------------------------
(* Claims about the per-object classifiers (specification SpecSensitive) *)

\* The verdict of the classification of build_fine_grained_tree for the object.
TreeVerdict(o) == ObjectCheck(world, BUCKET, o)

\* C28 as claimed: _is_object_public answers as the classification of
\* build_fine_grained_tree does: public exactly when the ACL has a public
\* entity holding the reader role or the probe succeeds.
C28_ClassifiersAgree ==
  op.name = "_is_object_public" =>
    /\ result.ok
    /\ TreeVerdict(op.folder_path).ok => result.val = TreeVerdict(op.folder_path).val
    /\ (op.folder_path \notin world.aclFail \cup world.httpCrash) =>
         result.val = (HasPublicReaderAcl(op.folder_path) \/ op.folder_path \in world.http200)

\* The two classifiers agree on an object whose probe raises nothing and
\* whose public ACL entries, if any, hold the reader role.
C28_AgreeOnReaderEntries ==
  (/\ op.name = "_is_object_public"
   /\ op.folder_path \notin world.httpCrash
   /\ \A i \in DOMAIN world.acl[op.folder_path] :
        world.acl[op.folder_path][i].entity \in PublicPrincipals
          => world.acl[op.folder_path][i].role = "READER")
    => /\ TreeVerdict(op.folder_path).ok
       /\ op.folder_path \notin world.aclFail =>
            result.val = TreeVerdict(op.folder_path).val

-----------------------------------------------------------------------------
(* Claims about the public-only sensitive scan (specification SpecSensitive) *)

PublicOnlyScan ==
  op.name = "scan_folder_sensitive" /\ op.public_only /\ result.ok

\* The objects whose content the scan downloaded.
Downloaded == {calls[i].arg : i \in {j \in DOMAIN calls : calls[j].fn = "download_as_bytes"}}

\* The objects the scan classified, by their probe in the call log.
Classified == {calls[i].arg : i \in {j \in DOMAIN calls : calls[j].fn = "requests.head"}}

\* C30: in a public-only sensitive scan every download of an object comes
\* after the classification of that object in the same scan, which answered
\* public; every finding names a downloaded object, and no object
\* classified private is downloaded.
C30_PublicOnlyDownloads ==
  PublicOnlyScan =>
    /\ \A i \in DOMAIN calls :
         calls[i].fn = "download_as_bytes" =>
           /\ \E j \in 1..(i - 1) :
                calls[j].fn = "requests.head" /\ calls[j].arg = calls[i].arg
           /\ _is_object_public(world, BUCKET, calls[i].arg).val
    /\ \A k \in DOMAIN result.val.findings :
         result.val.findings[k].object \in Downloaded
    /\ \A o \in Classified :
         ~_is_object_public(world, BUCKET, o).val => o \notin Downloaded

\* C30 witness: a public-only scan that skipped a private object holding a
\* secret and reported a finding in a public one.
C30_Witness ==
  /\ PublicOnlyScan
  /\ \E o \in Classified \ Downloaded : project.contents[o] = "secret"
  /\ result.val.findings # <<>>

-----------------------------------------------------------------------------
(* Claims about the objects of the trees (specification SpecTrees) *)

\* The objects the scan is about: under the prefix, and no folder marker.
ScannedObjects ==
  {o \in world.objects : StartsWith(o, op.folder_path) /\ ~EndsWithSlash(o)}

\* The key up to and including its last '/'.
UpToLastSlash(key) ==
  IF HasSlash(key)
  THEN SubSeq(key, 1, CHOOSE i \in 1..Len(key) :
                        key[i] = SLASH /\ \A j \in (i + 1)..Len(key) : key[j] # SLASH)
  ELSE <<>>

\* The name of an entry of an objects list: the key itself in uniform mode,
\* the name field in fine-grained mode.
EntryName(e) == IF op.name = "build_fine_grained_tree" THEN e.name ELSE e

\* How many entries of the tree name the object.
RECURSIVE TimesListed(_, _)
TimesListed(n, o) ==
  Cardinality({i \in DOMAIN n.objects : EntryName(n.objects[i]) = o})
  + (IF n.subfolders = <<>> THEN 0
     ELSE TimesListed([n EXCEPT !.objects = <<>>, !.subfolders = Tail(n.subfolders)], o)
          + TimesListed(Head(n.subfolders), o))

\* A tree was returned and no call of the scan failed.
TreeWithoutFailure ==
  TreeBuilderCalled /\ result.ok /\ world.httpCrash = {} /\ world.aclFail = {}

\* Every scanned object is listed once, and nothing else is listed.
ObjectsPartitioned ==
  /\ \A o \in ScannedObjects : TimesListed(result.val, o) = 1
  /\ \A n \in TreeNodes(result.val) : \A i \in DOMAIN n.objects :
       EntryName(n.objects[i]) \in ScannedObjects
  /\ op.name = "build_fine_grained_tree" =>
       \A n \in TreeNodes(result.val) : \A i \in DOMAIN n.objects :
         n.objects[i].is_public \in BOOLEAN

\* C29 as claimed: every scanned object is listed once, in the node whose
\* path is the key up to and including its last '/', in both modes.
C29_PartitionByPath ==
  TreeWithoutFailure =>
    /\ ObjectsPartitioned
    /\ \A n \in TreeNodes(result.val) : \A i \in DOMAIN n.objects :
         n.path = UpToLastSlash(EntryName(n.objects[i]))

\* C29 as amended: every scanned object is listed once and nothing else is
\* listed; an object's node has as path the key up to and including its
\* last '/' in uniform mode, and that prefix without its trailing '/'
\* characters, 'root' for the empty one, in fine-grained mode.
C29_PartitionByListedPrefix ==
  TreeWithoutFailure =>
    /\ ObjectsPartitioned
    /\ \A n \in TreeNodes(result.val) : \A i \in DOMAIN n.objects :
         n.path = IF op.name = "build_fine_grained_tree"
                  THEN TreePath(UpToLastSlash(EntryName(n.objects[i])))
                  ELSE UpToLastSlash(EntryName(n.objects[i]))

\* C29 witness: a tree with objects at two depths, one of them under a
\* sub-prefix with an empty name.
C29_Witness ==
  /\ TreeWithoutFailure
  /\ K_aax \in ScannedObjects
  /\ Cardinality(ScannedObjects) >= 2
  /\ Cardinality({UpToLastSlash(o) : o \in ScannedObjects}) >= 2

====
